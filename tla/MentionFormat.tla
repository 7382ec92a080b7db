--------------------------- MODULE MentionFormat ---------------------------
(***************************************************************************)
(* format_content_for_push (services/mention_parser.rs): which mentions of *)
(* users in a content are recognised, and how their names are put in their *)
(* places.  A content is a sequence of tokens: letters, spaces and the     *)
(* mentions "nostr:npub1...", which stand for MentionLength characters.    *)
(***************************************************************************)
EXTENDS Naturals, Sequences, SequencesExt

CONSTANTS
  Users,
  Letter, Space,  \* the tokens besides the mentions of users
  MentionLength

Tokens == Users \cup {Letter, Space}

ASSUME MentionFormatAssumption ==
  /\ {Letter, Space} \cap Users = {} /\ Letter # Space
  /\ MentionLength \in Nat \ {0}

(* The expression matches "nostr:" and up to 60 characters of an npub,     *)
(* which has 59 after "npub": a letter that follows is taken for a part of *)
(* it, and so is the first letter of a mention that follows, which is then *)
(* no mention any more.                                                    *)
IsMention(content, i) == content[i] \in Users

Matches(content) ==
  LET match[i \in DOMAIN content] ==
        IsMention(content, i) /\ (i = 1 \/ ~match[i - 1])
  IN {i \in DOMAIN content : IsMention(content, i) /\ match[i]}

(* Only a match that ends with the npub is one of a key.                   *)
Recognised(content) ==
  {i \in Matches(content) : i = Len(content) \/ content[i + 1] = Space}

MentionedIn(content) == {content[i] : i \in Recognised(content)}

-----------------------------------------------------------------------------
(* The characters of a token, and of a content.                            *)
Characters(token) ==
  IF token \in Users THEN [n \in 1..MentionLength |-> <<token, n>>] ELSE <<token>>

Text(content) == FlattenSeq([i \in DOMAIN content |-> Characters(content[i])])

Position(content, i) == Len(Text(SubSeq(content, 1, i - 1))) + 1

Put(content, nameOf, i, text) ==
  IF i \in Recognised(content)
  THEN ReplaceSubSeqAt(Position(content, i), nameOf[content[i]], Characters(content[i]), text)
  ELSE text

(* Mutation: the names are put in from the start of the text.              *)
ReplaceForwards(content, nameOf) ==
  LET upTo[i \in 0..Len(content)] ==
        IF i = 0 THEN Text(content) ELSE Put(content, nameOf, i, upTo[i - 1])
  IN upTo[Len(content)]

(* The names are put into the text from its end to its start, each at the  *)
(* place of its mention in the text as it was.                             *)
ReplaceMentions(content, nameOf) ==
  LET from[i \in 1..(Len(content) + 1)] ==
        IF i > Len(content) THEN Text(content) ELSE Put(content, nameOf, i, from[i + 1])
  IN from[1]

(* What that is to be: the tokens one after the other, with a name for     *)
(* each recognised mention.                                                *)
WithNames(content, nameOf) ==
  FlattenSeq([i \in DOMAIN content |->
    IF i \in Recognised(content) THEN nameOf[content[i]] ELSE Characters(content[i])])
=============================================================================
