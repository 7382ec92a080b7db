---------------------------- MODULE PushContent ----------------------------
(***************************************************************************)
(* What a notification says.  create_fcm_payload (event_handler.rs) looks  *)
(* up the sender's name, the group's metadata and the names of the users   *)
(* mentioned in the content, each in a Redis cache and else at the relays, *)
(* where newer profiles arrive meanwhile.  Each process makes one          *)
(* notification at a time; several processes share the caches.             *)
(***************************************************************************)
EXTENDS MentionFormat, FiniteSets

CONSTANTS
  Groups,
  Relays,      \* where profiles and group metadata are published
  Sources,     \* the relays a kind of lookup asks: [Kinds -> SUBSET Relays]
  Workers,     \* the processes
  Events,      \* [author, group, content]
  NoGroup,     \* the group of an event that is no group message
  MaxVersion,  \* how often a profile is published at most
  Arrivals,    \* which versions arrive where: a subset of Relays \X Subjects \X Versions
  Nameless,    \* the versions without a name
  NameOf,      \* what is shown for a user's version, "@" and the name, and for none,
               \* the shortened npub: [Users -> [0..MaxVersion -> Seq(Glyphs)]]
  Glyphs,      \* the characters of names
  Ttl,         \* how long an answer is cached: [Kinds -> Nat]
  Timeout,     \* how long a query takes at most: [Kinds -> Nat]
  BodyLimit    \* how many characters of the content a notification shows

(* The lookups, in this order, and the Redis keys of their answers:        *)
(* profile:{pubkey}, group_meta:{group} and profile_cache:{pubkey}.        *)
Kinds == {"profile", "group_meta", "mention"}
Subjects == Users \cup Groups
Keys == ({"profile", "mention"} \X Users) \cup ({"group_meta"} \X Groups)
KindOf(k) == k[1]
SubjectOf(k) == k[2]

Versions == 1..MaxVersion
NoVersion == 0

ASSUME PushContentAssumption ==
  /\ NoGroup \notin Groups
  /\ Sources \in [Kinds -> SUBSET Relays]
  /\ Events \subseteq [author : Users, group : Groups \cup {NoGroup}, content : Seq(Tokens)]
  /\ MaxVersion \in Nat /\ Nameless \subseteq Versions
  /\ Arrivals \subseteq Relays \X Subjects \X Versions
  /\ NameOf \in [Users -> [0..MaxVersion -> Seq(Glyphs)]]
  /\ Ttl \in [Kinds -> Nat] /\ Timeout \in [Kinds -> Nat]
  /\ BodyLimit \in Nat

(* How old a name is at most in a notification that is ready: it was saved *)
(* at the end of a query, read within the time to live, and the queries of *)
(* this notification come on top.                                          *)
MaxAge(kind) ==
  Ttl[kind] + Timeout[kind] +
    CASE kind = "profile"    -> Timeout["group_meta"] + Timeout["mention"]
      [] kind = "group_meta" -> Timeout["mention"]
      [] kind = "mention"    -> Timeout["mention"]

VARIABLES
  held,    \* the version a relay has: [relay][subject]
  unheld,  \* history: for how long no relay has had a version: [subject][version]
  cache,   \* Redis: the version of a key and its time to live
  job      \* the notification each process is making

vars == <<held, unheld, cache, job>>

\* The history counts as far as anybody asks.
Forgotten == 1 + MaxAge("profile") + MaxAge("group_meta") + MaxAge("mention")

NoEntry == [version |-> NoVersion, ttl |-> 0]

\* "names" is what the lookups have found, "wanted" the keys of the query that has been
\* running for "elapsed", "answers" what the relays in "heard" have said to it.
Jobs == [event : Events, stage : Kinds \cup {"done"},
         names : [Keys -> Versions \cup {NoVersion}], wanted : SUBSET Keys,
         elapsed : Nat, heard : SUBSET Relays, answers : SUBSET (Subjects \X Versions)]
Idle == [stage |-> "idle"]

TypeOK ==
  /\ held \in [Relays -> [Subjects -> Versions \cup {NoVersion}]]
  /\ unheld \in [Subjects -> [Versions -> 0..Forgotten]]
  /\ cache \in [Keys -> [version : Versions, ttl : Nat \ {0}] \cup {NoEntry}]
  /\ job \in [Workers -> Jobs \cup {Idle}]

Init ==
  /\ held = [r \in Relays |-> [s \in Subjects |-> NoVersion]]
  /\ unheld = [s \in Subjects |-> [v \in Versions |-> Forgotten]]
  /\ cache = [k \in Keys |-> NoEntry]
  /\ job = [w \in Workers |-> Idle]

-----------------------------------------------------------------------------
Busy(w) == job[w].stage # "idle"
Querying(w) == job[w].stage \in Kinds /\ job[w].wanted # {}
TimedOut(w) == Querying(w) /\ job[w].elapsed >= Timeout[job[w].stage]

\* Mutation: entries stay.
NeverExpire(entry) == entry

\* Mutation: and one that expires one tick later.
ExpireLate(entry) ==
  IF entry.ttl = 0 THEN NoEntry ELSE [entry EXCEPT !.ttl = @ - 1]

\* The expiry in Redis.  The is_valid of ProfileCache and GroupMetadataCache, by the time
\* of fetching in the entry, comes to the same.
Expire(entry) ==
  IF entry.ttl <= 1 THEN NoEntry ELSE [entry EXCEPT !.ttl = @ - 1]

\* Time passes while queries run; what the code does besides takes none.
Tick ==
  /\ \A w \in Workers : Busy(w) => Querying(w) /\ ~TimedOut(w)
  /\ unheld' = [s \in Subjects |-> [v \in Versions |->
       IF \E r \in Relays : held[r][s] = v THEN 0
       ELSE IF unheld[s][v] < Forgotten THEN unheld[s][v] + 1 ELSE Forgotten]]
  /\ cache' = [k \in Keys |-> Expire(cache[k])]
  /\ job' = [w \in Workers |-> IF Querying(w) THEN [job[w] EXCEPT !.elapsed = @ + 1] ELSE job[w]]
  /\ UNCHANGED held

\* A newer version arrives at a relay, which keeps the newest it has seen.
Publish(r, s, v) ==
  /\ <<r, s, v>> \in Arrivals /\ v > held[r][s]
  /\ held' = [held EXCEPT ![r][s] = v]
  /\ unheld' = [unheld EXCEPT ![s][v] = 0]
  /\ UNCHANGED <<cache, job>>

-----------------------------------------------------------------------------
Continue(w, j) == job' = [job EXCEPT ![w] = j]

\* The keys of a lookup, and the one that comes next.  Group messages have metadata.
KeysOf(e, kind) ==
  CASE kind = "profile"    -> {<<kind, e.author>>}
    [] kind = "group_meta" -> {<<kind, e.group>>} \cap Keys
    [] kind = "mention"    -> {kind} \X MentionedIn(e.content)

After(e, kind) ==
  CASE kind = "profile"    -> IF e.group # NoGroup THEN "group_meta" ELSE "mention"
    [] kind = "group_meta" -> "mention"
    [] kind = "mention"    -> "done"

\* create_fcm_payload.
Begin(w, e) ==
  /\ ~Busy(w)
  /\ Continue(w, [event |-> e, stage |-> "profile", names |-> [k \in Keys |-> NoVersion],
                  wanted |-> {}, elapsed |-> 0, heard |-> {}, answers |-> {}])
  /\ UNCHANGED <<held, unheld, cache>>

\* The lookup is over, and no query runs.
Leave(j, names) ==
  [j EXCEPT !.stage = After(j.event, j.stage), !.names = names,
            !.wanted = {}, !.elapsed = 0, !.heard = {}, !.answers = {}]

\* get_cached_string, or the GETs of fetch_profiles_batch; an error of Redis is a miss.
\* The keys missed are asked for at the relays.
ReadCache(w) ==
  /\ job[w].stage \in Kinds /\ job[w].wanted = {}
  /\ LET j == job[w]
         keys == KeysOf(j.event, j.stage)
     IN \E hits \in SUBSET {k \in keys : cache[k] # NoEntry} :
          LET names == [k \in Keys |-> IF k \in hits THEN cache[k].version ELSE j.names[k]]
          IN Continue(w, IF hits = keys THEN Leave(j, names)
                         ELSE [j EXCEPT !.names = names, !.wanted = keys \ hits])
  /\ UNCHANGED <<held, unheld, cache>>

\* A relay answers with what it has at the time.
Hear(w, r) ==
  /\ Querying(w) /\ r \in Sources[job[w].stage] \ job[w].heard
  /\ LET asked == {s \in Subjects : held[r][s] # NoVersion /\ <<job[w].stage, s>> \in job[w].wanted}
     IN Continue(w, [job[w] EXCEPT !.heard = @ \cup {r},
                                   !.answers = @ \cup {<<s, held[r][s]>> : s \in asked}])
  /\ UNCHANGED <<held, unheld, cache>>

\* The events come newest first.  fetch_sender_name and fetch_group_metadata take the first
\* one, fetch_from_relays lets the later ones overwrite it.
Choice(kind, versions) ==
  IF kind = "mention" THEN CHOOSE v \in versions : \A x \in versions : v <= x
                      ELSE CHOOSE v \in versions : \A x \in versions : v >= x

\* A version without a name is an answer of the mention parser only.
Answer(k, answers) ==
  LET versions == {v \in Versions : <<SubjectOf(k), v>> \in answers}
  IN IF versions = {} \/ (KindOf(k) # "mention" /\ Choice(KindOf(k), versions) \in Nameless)
     THEN NoVersion ELSE Choice(KindOf(k), versions)

\* set_cached_string, or the SETEX of fetch_profiles_batch.  A time to live of 0 is an error.
Saved(k, answers) ==
  IF Ttl[KindOf(k)] = 0 THEN cache[k] ELSE [version |-> Answer(k, answers), ttl |-> Ttl[KindOf(k)]]

\* The query ends: with what all the relays or those in time have said, or with nothing
\* when it fails.  What is found is cached, as far as Redis takes it.
EndQuery(w, answers) ==
  LET j == job[w]
      found == {k \in j.wanted : Answer(k, answers) # NoVersion}
  IN /\ Continue(w, Leave(j, [k \in Keys |-> IF k \in found THEN Answer(k, answers)
                                                            ELSE j.names[k]]))
     /\ \E saved \in SUBSET found :
          cache' = [k \in Keys |-> IF k \in saved THEN Saved(k, answers) ELSE cache[k]]
     /\ UNCHANGED <<held, unheld>>

\* Mutation: a query waits for every relay.
AnsweredByAll(w) ==
  /\ Querying(w)
  /\ Sources[job[w].stage] \subseteq job[w].heard
  /\ EndQuery(w, job[w].answers)

Answered(w) ==
  /\ Querying(w)
  /\ Sources[job[w].stage] \subseteq job[w].heard \/ TimedOut(w)
  /\ EndQuery(w, job[w].answers)

Failed(w) == Querying(w) /\ EndQuery(w, {})

\* The mention parser gets no connection to Redis: the content is sent as it was.
Unformatted(w) ==
  /\ job[w].stage = "mention" /\ job[w].wanted = {} /\ MentionedIn(job[w].event.content) # {}
  /\ Continue(w, Idle)
  /\ UNCHANGED <<held, unheld, cache>>

\* The notification is made, ...
Send(w) ==
  /\ job[w].stage = "done"
  /\ Continue(w, Idle)
  /\ UNCHANGED <<held, unheld, cache>>

\* ... or the process crashes.  A shutdown waits for it.
Crash(w) ==
  /\ Busy(w)
  /\ Continue(w, Idle)
  /\ UNCHANGED <<held, unheld, cache>>

Make(w) == ReadCache(w) \/ Answered(w) \/ Send(w)

Next ==
  \/ Tick
  \/ \E r \in Relays, s \in Subjects, v \in Versions : Publish(r, s, v)
  \/ \E w \in Workers :
       \/ \E e \in Events : Begin(w, e)
       \/ \E r \in Relays : Hear(w, r)
       \/ Make(w) \/ Failed(w) \/ Unformatted(w) \/ Crash(w)

Spec == Init /\ [][Next]_vars

\* The processes go on, and so does the time, however much the others do in no time.
FairSpec == Spec /\ SF_vars(Tick) /\ \A w \in Workers : WF_vars(Make(w))

-----------------------------------------------------------------------------
(* The body of a notification that is ready.                               *)
Cut(text) == SubSeq(text, 1, IF Len(text) < BodyLimit THEN Len(text) ELSE BodyLimit)

Shown(j) == [u \in MentionedIn(j.event.content) |-> NameOf[u][j.names[<<"mention", u>>]]]

Body(j) == Cut(ReplaceMentions(j.event.content, Shown(j)))

-----------------------------------------------------------------------------
\* A notification that is ready shows names and metadata that a relay had not long ago,
\* though the cache is shared, entries are older than the time they were saved at and a
\* slow query overwrites the answer of a quick one (settings.yaml:95, time to live).
NamesRecent ==
  \A w \in Workers :
    job[w].stage = "done" =>
      \A k \in Keys :
        LET v == job[w].names[k]
        IN v # NoVersion => unheld[SubjectOf(k)][v] <= MaxAge(KindOf(k))

\* The names stand where their mentions stood, whatever their lengths, and the rest of the
\* content is as it was, up to the limit.
BodyReadsRight ==
  \A w \in Workers :
    job[w].stage = "done" =>
      Body(job[w]) = Cut(WithNames(job[w].event.content, Shown(job[w])))

\* Every notification begun is made, however slow the relays are.
NotificationMade == \A w \in Workers : Busy(w) ~> ~Busy(w)
=============================================================================
