--------------------------- MODULE SupplierScore ---------------------------
(***************************************************************************)
(* Sourcing: the score of a supplier, lowered by receipts whose measured   *)
(* volume is over what was declared.  Deliveries are at least once; the    *)
(* handler asks whether it has processed the event, and its transaction    *)
(* inserts the ProcessedEvent, reads the score, and writes the ledger row  *)
(* and the new score it computed.                                          *)
(***************************************************************************)
EXTENDS Integers, FiniteSets, Functions

CONSTANTS
  Receipts,     \* warehouse.receiptRecorded events of one supplier's orders
  Penalty,      \* of each: 0 when the discrepancy is not flagged
  ScoreCalls,   \* concurrent deliveries
  StartScore

ASSUME ScoreAssumption ==
  /\ IsFiniteSet(Receipts)
  /\ Penalty \in [Receipts -> Nat] /\ StartScore \in Int

VARIABLES
  score,        \* Supplier.score
  processed,    \* committed ProcessedEvent rows
  scoreLedger,  \* SupplierScoreEvent rows
  scoreCall     \* how far each delivery is

scoreVars == <<score, processed, scoreLedger, scoreCall>>

NoScoreCall == [pc |-> "idle"]
ScoreRequests ==
  {NoScoreCall}
    \cup [pc : {"insert"}, event : Receipts]
    \cup [pc : {"write"}, event : Receipts, previous : Int]

ScoreTypeOK ==
  /\ score \in Int /\ processed \subseteq Receipts
  /\ scoreLedger \subseteq [event : Receipts, previous : Int, new : Int]
  /\ scoreCall \in [ScoreCalls -> ScoreRequests]

ScoreInit ==
  /\ score = StartScore /\ processed = {} /\ scoreLedger = {}
  /\ scoreCall = [c \in ScoreCalls |-> NoScoreCall]

ScoreStep(c, r) == scoreCall' = [scoreCall EXCEPT ![c] = r]

\* A delivery finds its event not processed; one that finds it is a duplicate.
ReceiptArrives(c, e) ==
  /\ scoreCall[c] = NoScoreCall /\ e \notin processed
  /\ ScoreStep(c, [pc |-> "insert", event |-> e])
  /\ UNCHANGED <<score, processed, scoreLedger>>

\* Mutant: the events processed are not unique.
Inserted(e) == TRUE

\* The unique key on event and consumer: refused when the row is there, and waiting
\* while another transaction holds it.
Unprocessed(e) ==
  /\ e \notin processed
  /\ \A d \in ScoreCalls : scoreCall[d].pc = "write" => scoreCall[d].event # e

\* The transaction inserts the ProcessedEvent, then reads the score.
ScoreReads(c) ==
  /\ scoreCall[c].pc = "insert" /\ Unprocessed(scoreCall[c].event)
  /\ ScoreStep(c, [pc |-> "write", event |-> scoreCall[c].event, previous |-> score])
  /\ UNCHANGED <<score, processed, scoreLedger>>

\* A flagged receipt: the ledger row and the score, computed from what was read.
ScoreWrites(c) ==
  /\ scoreCall[c].pc = "write"
  /\ LET e == scoreCall[c].event
         previous == scoreCall[c].previous
     IN  /\ processed' = processed \cup {e}
         /\ IF Penalty[e] = 0 THEN UNCHANGED <<score, scoreLedger>>
            ELSE /\ score' = previous - Penalty[e]
                 /\ scoreLedger' = scoreLedger \cup
                      {[event |-> e, previous |-> previous, new |-> previous - Penalty[e]]}
  /\ ScoreStep(c, NoScoreCall)

\* The insert is refused, the transaction rolls back, or the process dies.
ScoreCallFails(c) ==
  /\ scoreCall[c] # NoScoreCall
  /\ ScoreStep(c, NoScoreCall)
  /\ UNCHANGED <<score, processed, scoreLedger>>

ScoreNext ==
  \E c \in ScoreCalls :
    \/ \E e \in Receipts : ReceiptArrives(c, e)
    \/ ScoreReads(c) \/ ScoreWrites(c) \/ ScoreCallFails(c)

ScoreSpec == ScoreInit /\ [][ScoreNext]_scoreVars

----------------------------------------------------------------------------
(* Properties                                                              *)

\* The ledger has one row for each receipt, however often it is delivered.
OneRowEach == \A x, y \in scoreLedger : x.event = y.event => x = y

\* Redelivered, retried or crossing with another: no receipt costs its supplier twice.
\* The score is never under what the receipts processed take, each counted once, with one
\* row of the ledger.  (It may be over: of two that cross, one is lost.)
NeverDoublePenalised ==
  /\ score >= StartScore - SumFunctionOnSet(Penalty, processed)
  /\ OneRowEach
============================================================================
