---------------------------- MODULE ReadableRefs ----------------------------
(***************************************************************************)
(* The readable refs of one kind of row (nextSequence): a creation reads   *)
(* the newest ref in the order of strings, adds one and inserts.  A ref is *)
(* its prefix and a number padded with zeros to a fixed width.             *)
(***************************************************************************)
EXTENDS Naturals, FiniteSets

CONSTANTS
  Base, Width, \* digits of the number: ten and four, in the code
  Longest,     \* bound: characters of a number
  MaxNumber,   \* bound: no number above it is written
  Creators     \* concurrent creations

\* The numbers of so many characters are those below it: a power of the base.
Room[characters \in 0..Longest] ==
  IF characters = 0 THEN 1 ELSE Base * Room[characters - 1]

ASSUME RefAssumption ==
  /\ Base \in Nat \ {0, 1} /\ Width \in Nat \ {0}
  /\ Longest \in Nat /\ Width <= Longest
  /\ MaxNumber \in Nat /\ MaxNumber < Room[Longest]

VARIABLES
  refs,        \* the numbers of the rows
  numbered,    \* the number each creation is about to write, 0 outside one
  together     \* history: creations that overlapped another one

refVars == <<refs, numbered, together>>

RefsTypeOK ==
  /\ refs \subseteq 1..MaxNumber
  /\ numbered \in [Creators -> 0..MaxNumber + 1]
  /\ together \subseteq Creators

RefsInit ==
  /\ refs = {} /\ together = {}
  /\ numbered = [c \in Creators |-> 0]

\* Characters of the number as it is written: padded, or more when it is too long.
Characters(n) == CHOOSE k \in Width..Longest :
  /\ n < Room[k]
  /\ k = Width \/ n >= Room[k - 1]

\* The number as it compares, character by character: filled up on the right.
Filled(n) == n * Room[Longest - Characters(n)]

\* The order of strings: of two that begin the same the shorter is first.
SortsBefore(m, n) ==
  \/ Filled(m) < Filled(n)
  \/ Filled(m) = Filled(n) /\ Characters(m) < Characters(n)

\* Mutant: one more than the rows there are, as it was before nextSequence.
CountPlusOne == Cardinality(refs) + 1

\* One more than the last ref in the order of strings.
NextSequence ==
  IF refs = {} THEN 1
  ELSE 1 + CHOOSE n \in refs : \A m \in refs \ {n} : SortsBefore(m, n)

Creating == {c \in Creators : numbered[c] # 0}

ReadsNewest(c) ==
  /\ numbered[c] = 0
  /\ numbered' = [numbered EXCEPT ![c] = NextSequence]
  /\ together' = IF Creating = {} THEN together ELSE together \cup Creating \cup {c}
  /\ UNCHANGED refs

\* The unique ref refuses a number that is taken.
InsertsRow(c) ==
  /\ numbered[c] \in 1..MaxNumber
  /\ refs' = refs \cup {numbered[c]}
  /\ numbered' = [numbered EXCEPT ![c] = 0]
  /\ together' = together \ {c}

\* A row is deleted: a management task, or any row by hand.
DeletesRow(n) ==
  /\ refs' = refs \ {n}
  /\ UNCHANGED <<numbered, together>>

RefsNext ==
  \/ \E c \in Creators : ReadsNewest(c) \/ InsertsRow(c)
  \/ \E n \in refs : DeletesRow(n)

RefsSpec == RefsInit /\ [][RefsNext]_refVars

----------------------------------------------------------------------------
(* Properties                                                              *)

\* The rows whose number has room in the width.
AllFit == refs \subseteq 1..Room[Width] - 1

\* nextSequence makes sequential writers safe, whatever was deleted: a creation
\* that overlaps no other one is about to write a number nobody has, as long as
\* the numbers fit the width.  (Not any longer: the first number of one more
\* character sorts before the last that fits, and is handed out for ever.)
SequentialCreatesSucceed ==
  \A c \in Creating \ together : AllFit => numbered[c] \notin refs

\* The same without the width, as the comment of nextSequence has it: the order
\* of strings and of numbers agree, because refs are padded to a fixed width.
SequentialWritersAreSafe ==
  \A c \in Creating \ together : numbered[c] \notin refs
=============================================================================
