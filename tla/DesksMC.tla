------------------------------ MODULE DesksMC ------------------------------
(* One run for the components whose requests read first and write later:   *)
(* they share no state, so a behaviour is about one, the focus, and the    *)
(* others stay at Init.                                                    *)
EXTENDS Cargo, SupplierDeal, SupplierBank, UzaId, Intake,
        Quotation, Week, SignalDesk, ReadableRefs,
        PlanRegister, CommandBoard, FreightBooks, SupplierScore, Academy, TLC

\* Two packages of two lots, one order each and one PO; one shipment, and one
\* destination, which a package has or has not (CargoProofs is about all).
CONSTANTS g1, g2, l1, l2, o1, o2, po1, goma, s1

\* Two calls at a time: of every component the same two names, so that a
\* behaviour and the one with the names exchanged are one.
CONSTANTS u1, u2

\* One offer and its deal, four idempotency keys.
CONSTANTS offer1, k1, k2, k3, k4

\* Two bank changes of one supplier, four people of finance.
CONSTANTS c1, c2, factory, ann, ben, cyd, dee, a1, a2

\* Accounts of one person or of several: two share a phone, two a national ID.
CONSTANTS evfleet, mobility, taxi, nid1, phone1, sys1, sys2, desk

\* A mailbox, a folder, a note.
CONSTANTS mail1, doc1, gmail, folder, note1

\* A person, and what a meeting or they write.
CONSTANTS pat, told1, told2, own1, own2

\* Signals of the desk.
CONSTANTS sig1, sig2

\* An initiative, a duty, a grant; receipts, one of them within tolerance; modules.
CONSTANTS init1, duty1, grant1, r1, r2, r3, m1, m2

VARIABLE focus

TwoPackages == {g1, g2}
TwoLots == {l1, l2}
TwoOrders == {o1, o2}
OnePO == {po1}
OneDestination == {goma}
OneShipment == {s1}
TwoUsers == {u1, u2}
LotEach == g1 :> l1 @@ g2 :> l2
OrderEach == l1 :> o1 @@ l2 :> o2
SamePO == l1 :> po1 @@ l2 :> po1

OneOffer == {offer1}
FourKeys == {k1, k2, k3, k4}

TwoChanges == {c1, c2}
OneSupplier == {factory}
SameSupplier == c1 :> factory @@ c2 :> factory
FinanceAndCeo == {ann, ben, cyd, dee}
TwoApprovals == {a1, a2}

ThreeAccounts == {evfleet, mobility, taxi}
OneNid == {nid1}
OnePhone == {phone1}
KnownNids == evfleet :> nid1 @@ mobility :> NoKey @@ taxi :> nid1
KnownPhones == evfleet :> NoKey @@ mobility :> phone1 @@ taxi :> phone1
SystemsAndDesk == {sys1, sys2, desk}
OneMerger == {desk}

MailAndDoc == {mail1, doc1}
WhereFrom == mail1 :> gmail @@ doc1 :> folder
OneNote == {note1}

OnePerson == {pat}
TwoMinutes == {told1, told2}
TwoOwnTexts == {own1, own2}
TwoSignals == {sig1, sig2}

OneInitiative == {init1}
OneDuty == {duty1}
TwoOwners == {ann, ben}
OneGrant == {grant1}
CeoAndOwner ==
  {[role |-> "ceo", userId |-> ann, customerIds |-> {}, shipmentRefs |-> {}],
   [role |-> "finance", userId |-> ben, customerIds |-> {}, shipmentRefs |-> {}]}
TonEach == o1 :> 1 @@ o2 :> 1
ThreeReceipts == {r1, r2, r3}
PenaltyOf == r1 :> 1 @@ r2 :> 2 @@ r3 :> 0
TwoModules == {m1, m2}

Sym == Permutations(TwoUsers)

cargoDealVars == <<vars, dealVars>>
bankUzaVars == <<bankVars, uzaVars>>
intakeDeskVars == <<intakeVars, deskVars>>
officeVars == <<quoteVars, weekVars, refVars>>
planGrantVars == <<planVars, grantVars>>
bookVars == <<freightVars, scoreVars, academyVars>>
firstVars == <<cargoDealVars, bankUzaVars, intakeDeskVars, officeVars>>
laterVars == <<planGrantVars, bookVars>>
desksVars == <<focus, firstVars, laterVars>>

DesksInit ==
  /\ focus \in {"cargo", "deal", "bank", "uza", "intake", "quotes", "week", "desk", "refs",
               "initiatives", "duties", "grants", "freight", "scores", "academy"}
  /\ Init /\ DealInit /\ BankInit /\ UzaInit /\ IntakeInit
  /\ QuotationInit /\ WeekInit /\ RefsInit
  /\ DeskInit /\ PlanInit /\ GrantInit /\ FreightInit /\ ScoreInit /\ AcademyInit
  /\ focus # "desk" => lane = [s \in DeskSignals |-> "shared"]

FirstNext ==
  /\ UNCHANGED laterVars
  /\ \/ focus = "cargo" /\ Next /\ UNCHANGED <<dealVars, bankUzaVars, intakeDeskVars, officeVars>>
     \/ focus = "deal" /\ DealNext /\ UNCHANGED <<vars, bankUzaVars, intakeDeskVars, officeVars>>
     \/ focus = "bank" /\ BankNext /\ UNCHANGED <<cargoDealVars, uzaVars, intakeDeskVars, officeVars>>
     \/ focus = "uza" /\ UzaNext /\ UNCHANGED <<cargoDealVars, bankVars, intakeDeskVars, officeVars>>
     \/ focus = "intake" /\ IntakeNext /\ UNCHANGED <<cargoDealVars, bankUzaVars, deskVars, officeVars>>
     \/ focus = "desk" /\ DeskNext /\ UNCHANGED <<cargoDealVars, bankUzaVars, intakeVars, officeVars>>
     \/ /\ focus = "quotes" /\ QuotationNext
        /\ UNCHANGED <<cargoDealVars, bankUzaVars, intakeDeskVars, weekVars, refVars>>
     \/ /\ focus = "week" /\ WeekNext
        /\ UNCHANGED <<cargoDealVars, bankUzaVars, intakeDeskVars, quoteVars, refVars>>
     \/ /\ focus = "refs" /\ RefsNext
        /\ UNCHANGED <<cargoDealVars, bankUzaVars, intakeDeskVars, quoteVars, weekVars>>

LaterNext ==
  /\ UNCHANGED firstVars
  /\ \/ focus = "initiatives" /\ InitiativeNext /\ UNCHANGED <<grantVars, bookVars>>
     \/ focus = "duties" /\ DutyNext /\ UNCHANGED <<grantVars, bookVars>>
     \/ focus = "grants" /\ GrantNext /\ UNCHANGED <<planVars, bookVars>>
     \/ focus = "freight" /\ FreightNext /\ UNCHANGED <<planGrantVars, scoreVars, academyVars>>
     \/ focus = "scores" /\ ScoreNext /\ UNCHANGED <<planGrantVars, freightVars, academyVars>>
     \/ focus = "academy" /\ AcademyNext /\ UNCHANGED <<planGrantVars, freightVars, scoreVars>>

DesksNext == UNCHANGED focus /\ (FirstNext \/ LaterNext)

DesksSpec == DesksInit /\ [][DesksNext]_desksVars
==============================================================================
