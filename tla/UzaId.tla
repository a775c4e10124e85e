------------------------------- MODULE UzaId -------------------------------
(***************************************************************************)
(* The UZA ID: people, the accounts other systems link to them, the match  *)
(* keys (hashes of the national ID and the phone) and merges.  No resolve  *)
(* runs in a transaction, and a merge reads its two people before its own. *)
(***************************************************************************)
EXTENDS Naturals

CONSTANTS
  Accounts,    \* (system, externalId) pairs that systems ask about
  NationalIds, Phones,  \* the hashed match keys
  NidOf, PhoneOf,       \* what each system knows of the holder of an account
  NoKey,       \* the holder's key is not known, or the person has none
  Staff,       \* concurrent callers
  Mergers,     \* the callers that may merge: uza-id:merge
  MaxPeople    \* bound on the people ever issued an ID

ASSUME UzaAssumption ==
  /\ NidOf \in [Accounts -> NationalIds \cup {NoKey}]
  /\ PhoneOf \in [Accounts -> Phones \cup {NoKey}]
  /\ NoKey \notin NationalIds /\ NoKey \notin Phones
  /\ Mergers \subseteq Staff
  /\ MaxPeople \in Nat

VARIABLES
  issued,     \* Person rows exist for the refs 1..issued; none is ever deleted
  nid, phone, mergedInto,  \* Person.nationalIdHash, phoneHash, mergedIntoRef
  linked,     \* PersonLink: the person an account is linked to
  call        \* what each caller's request has read and is about to write

uzaVars == <<issued, nid, phone, mergedInto, linked, call>>

\* UZA-P-000001 and on; 0 is a null ref.
People == 1..MaxPeople
NoPerson == 0
Registered == 1..issued
Quiet == [pc |-> "quiet"]

Calls ==
  {Quiet}
    \cup [pc : {"phone", "create"}, account : Accounts]
    \cup [pc : {"attach", "fill"}, account : Accounts, person : People,
          nid : NationalIds \cup {NoKey}, phone : Phones \cup {NoKey}]
    \cup [pc : {"list", "move"}, loser : People, winner : People, accounts : SUBSET Accounts,
          nid : NationalIds \cup {NoKey}, phone : Phones \cup {NoKey}]

UzaTypeOK ==
  /\ issued \in 0..MaxPeople
  /\ nid \in [People -> NationalIds \cup {NoKey}]
  /\ phone \in [People -> Phones \cup {NoKey}]
  /\ mergedInto \in [People -> Registered \cup {NoPerson}]
  /\ linked \in [Accounts -> Registered \cup {NoPerson}]
  /\ call \in [Staff -> Calls]

UzaInit ==
  /\ issued = 0
  /\ nid = [p \in People |-> NoKey]
  /\ phone = [p \in People |-> NoKey]
  /\ mergedInto = [p \in People |-> NoPerson]
  /\ linked = [a \in Accounts |-> NoPerson]
  /\ call = [s \in Staff |-> Quiet]

Return(s) == call' = [call EXCEPT ![s] = Quiet]
rows == <<issued, nid, phone, mergedInto, linked>>

\* The first key that is set: a ?? b.
Or(a, b) == IF a # NoKey THEN a ELSE b

\* phoneHash and nationalIdHash are unique: nobody but p may hold k.
Unique(key, k, p) == k # NoKey => \A q \in Registered \ {p} : key[q] # k

\* A merged record answers with the person it became, one step on.
Follow(p) == IF mergedInto[p] # NoPerson THEN mergedInto[p] ELSE p

----------------------------------------------------------------------------
(* resolve: a call for a linked account reads the link and returns         *)

Matched(s, a, p) ==
  call' = [call EXCEPT ![s] =
    [pc |-> "attach", account |-> a, person |-> p,
     nid |-> IF nid[p] = NoKey THEN NidOf[a] ELSE NoKey,
     phone |-> IF phone[p] = NoKey THEN PhoneOf[a] ELSE NoKey]]

\* The lookup by national ID.
Resolve(s, a) ==
  /\ call[s] = Quiet
  /\ linked[a] = NoPerson
  /\ \/ \E p \in Registered : nid[p] = NidOf[a] /\ NidOf[a] # NoKey /\ Matched(s, a, p)
     \/ /\ \A p \in Registered : NidOf[a] = NoKey \/ nid[p] # NidOf[a]
        /\ call' = [call EXCEPT ![s] = [pc |-> "phone", account |-> a]]
  /\ UNCHANGED rows

\* The lookup by phone, a query of its own.
LookUpPhone(s) ==
  /\ call[s].pc = "phone"
  /\ LET a == call[s].account IN
       \/ \E p \in Registered : phone[p] = PhoneOf[a] /\ PhoneOf[a] # NoKey /\ Matched(s, a, p)
       \/ /\ \A p \in Registered : PhoneOf[a] = NoKey \/ phone[p] # PhoneOf[a]
          /\ call' = [call EXCEPT ![s] = [pc |-> "create", account |-> a]]
  /\ UNCHANGED rows

\* personLink.create; the unique (system, externalId) refuses a second link.
Attach(s) ==
  /\ call[s].pc = "attach"
  /\ LET a == call[s].account IN
       IF linked[a] # NoPerson
       THEN Return(s) /\ UNCHANGED linked
       ELSE /\ linked' = [linked EXCEPT ![a] = call[s].person]
            /\ IF call[s].nid = NoKey /\ call[s].phone = NoKey
               THEN Return(s)
               ELSE call' = [call EXCEPT ![s].pc = "fill"]
  /\ UNCHANGED <<issued, nid, phone, mergedInto>>

\* person.update with the keys that the row read had lacked.
Fill(s) ==
  /\ call[s].pc = "fill"
  /\ LET p == call[s].person
         n == Or(call[s].nid, nid[p])
         h == Or(call[s].phone, phone[p])
     IN IF Unique(nid, n, p) /\ Unique(phone, h, p)
        THEN /\ nid' = [nid EXCEPT ![p] = n]
             /\ phone' = [phone EXCEPT ![p] = h]
        ELSE UNCHANGED <<nid, phone>>
  /\ Return(s)
  /\ UNCHANGED <<issued, mergedInto, linked>>

\* issueRef and person.create with the nested link: all of it or none.
Create(s) ==
  /\ call[s].pc = "create"
  /\ LET a == call[s].account
         p == issued + 1
     IN IF linked[a] = NoPerson /\ Unique(nid, NidOf[a], p) /\ Unique(phone, PhoneOf[a], p)
        THEN /\ p \in People
             /\ issued' = p
             /\ nid' = [nid EXCEPT ![p] = NidOf[a]]
             /\ phone' = [phone EXCEPT ![p] = PhoneOf[a]]
             /\ linked' = [linked EXCEPT ![a] = p]
        ELSE UNCHANGED <<issued, nid, phone, linked>>
  /\ Return(s)
  /\ UNCHANGED mergedInto

\* link: a human attaches an account to a person, merged or not.
Link(s, p, a) ==
  /\ call[s] = Quiet
  /\ p \in Registered
  /\ linked[a] = NoPerson
  /\ linked' = [linked EXCEPT ![a] = p]
  /\ UNCHANGED <<issued, nid, phone, mergedInto, call>>

----------------------------------------------------------------------------
(* merge                                                                   *)

\* The two people as read before the transaction; nid and phone are what the
\* winner will be given.
Merge(s, loser, winner) ==
  /\ call[s] = Quiet
  /\ loser # winner /\ loser \in Registered /\ winner \in Registered
  /\ mergedInto[loser] = NoPerson
  /\ call' = [call EXCEPT ![s] =
       [pc |-> "list", loser |-> loser, winner |-> winner, accounts |-> {},
        nid |-> Or(nid[winner], nid[loser]), phone |-> Or(phone[winner], phone[loser])]]
  /\ UNCHANGED rows

\* The transaction lists the loser's links.
ListLinks(s) ==
  /\ call[s].pc = "list"
  /\ call' = [call EXCEPT ![s].pc = "move",
                          ![s].accounts = {a \in Accounts : linked[a] = call[s].loser}]
  /\ UNCHANGED rows

\* Mutant: the duplicate is told by the loser's ref.
MovedByLoser(listed, winner) ==
  [a \in Accounts |-> IF a \in listed THEN NoPerson ELSE linked[a]]

\* Links of the list the winner already has are dropped, the others move.
Moved(listed, winner) ==
  [a \in Accounts |-> IF a \in listed
                      THEN IF linked[a] = winner THEN NoPerson ELSE winner
                      ELSE linked[a]]

\* The rest of the transaction: links, tombstone and keys.  A link that another
\* merge dropped, or a key that a third person holds, aborts it.
MoveLinks(s) ==
  /\ call[s].pc = "move"
  /\ LET loser == call[s].loser
         winner == call[s].winner
         listed == call[s].accounts
     IN IF /\ \A a \in listed : linked[a] # NoPerson
           /\ \A q \in Registered \ {loser, winner} :
                /\ call[s].nid # NoKey => nid[q] # call[s].nid
                /\ call[s].phone # NoKey => phone[q] # call[s].phone
        THEN /\ linked' = Moved(listed, winner)
             /\ mergedInto' = [mergedInto EXCEPT ![loser] = winner]
             /\ nid' = [nid EXCEPT ![loser] = NoKey, ![winner] = call[s].nid]
             /\ phone' = [phone EXCEPT ![loser] = NoKey, ![winner] = call[s].phone]
        ELSE UNCHANGED <<linked, mergedInto, nid, phone>>
  /\ Return(s)
  /\ UNCHANGED issued

UzaNext ==
  \/ \E s \in Staff :
       \/ \E a \in Accounts : Resolve(s, a)
       \/ LookUpPhone(s) \/ Attach(s) \/ Fill(s) \/ Create(s)
       \/ \E p \in Registered, a \in Accounts : Link(s, p, a)
  \/ \E s \in Mergers :
       \/ \E loser, winner \in Registered : Merge(s, loser, winner)
       \/ ListLinks(s) \/ MoveLinks(s)

UzaSpec == UzaInit /\ [][UzaNext]_uzaVars

----------------------------------------------------------------------------
(* Properties                                                              *)

\* With one merge at a time and any number of concurrent resolves, a system
\* that was told who an account belongs to keeps its answer: the link is never
\* dropped, and moves only to the person its own person was merged into (merge).
LinkFollowsPerson ==
  [][\A a \in Accounts :
       linked[a] # NoPerson =>
         \/ linked'[a] = linked[a]
         \/ linked'[a] # NoPerson /\ mergedInto'[linked[a]] = linked'[a]]_uzaVars

\* A printed ID keeps resolving to the right person (merge): what resolve
\* answers for a linked account is a person who was not merged away.  A chain of
\* merges breaks this in the code, so no run has it.
ResolvedIsLive ==
  \A a \in Accounts : linked[a] # NoPerson => mergedInto[Follow(linked[a])] = NoPerson
============================================================================
