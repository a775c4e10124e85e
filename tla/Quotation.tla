----------------------------- MODULE Quotation -----------------------------
(***************************************************************************)
(* Quotations: a revision adds the next version and supersedes the one it  *)
(* read, approval sets a status, closing the costs writes the whole ladder *)
(* back with the actuals that have come in.  Prices and margins are left   *)
(* out: they are fixed when a version is built.  Of a ladder, a call only  *)
(* knows whether the one it read is still the one of the row.              *)
(***************************************************************************)
EXTENDS Naturals, FiniteSets, Sequences

CONSTANTS
  QuoteCalls, \* concurrent calls
  MaxQuotes   \* bound: rows

ASSUME QuotationAssumption == MaxQuotes \in Nat

VARIABLES
  quotes,     \* rows in the order of their refs
  quoteCall,  \* what each call has read and writes next
  actualsLost,\* history: a ladder was written over by an older one
  quotesRaced \* history: a call read a row while another held it

quoteVars == <<quotes, quoteCall, actualsLost, quotesRaced>>

NoQuoteCall == [op |-> "idle"]
QuoteRefs == 1..Len(quotes)
QuoteStatuses == {"draft", "approved", "superseded"}
QuoteRows ==
  [version : 1..MaxQuotes, status : QuoteStatuses, heir : 0..MaxQuotes]
QuoteRequests ==
  {NoQuoteCall}
    \cup [op : {"revise", "approve"}, on : 1..MaxQuotes]
    \cup [op : {"close"}, on : 1..MaxQuotes, current : BOOLEAN]

QuotationTypeOK ==
  /\ quotes \in Seq(QuoteRows) /\ Len(quotes) <= MaxQuotes
  /\ quoteCall \in [QuoteCalls -> QuoteRequests]
  /\ actualsLost \in BOOLEAN /\ quotesRaced \in BOOLEAN

QuotationInit ==
  /\ quotes = <<>> /\ actualsLost = FALSE /\ quotesRaced = FALSE
  /\ quoteCall = [c \in QuoteCalls |-> NoQuoteCall]

Draft(v) == [version |-> v, status |-> "draft", heir |-> 0]

\* build: version 1 of a new line of quotations.
BuildQuotation ==
  /\ Len(quotes) < MaxQuotes
  /\ quotes' = Append(quotes, Draft(1))
  /\ UNCHANGED <<quoteCall, actualsLost, quotesRaced>>

\* A call reads the row it is about; another that holds it is a race.
ReadsQuote(c, r) ==
  /\ quoteCall[c] = NoQuoteCall
  /\ quoteCall' = [quoteCall EXCEPT ![c] = r]
  /\ quotesRaced' = (quotesRaced \/ \E d \in QuoteCalls :
                       quoteCall[d] # NoQuoteCall /\ quoteCall[d].on = r.on)
  /\ UNCHANGED <<quotes, actualsLost>>

\* Mutant: a superseded quotation is revised like another.
Whatever(q) == TRUE

\* revise and approve refuse a superseded quotation.
NotSuperseded(q) == quotes[q].status # "superseded"

ReviseReads(c, q) ==
  /\ NotSuperseded(q)
  /\ ReadsQuote(c, [op |-> "revise", on |-> q])

ApproveReads(c, q) ==
  /\ NotSuperseded(q)
  /\ ReadsQuote(c, [op |-> "approve", on |-> q])

\* closeCosts: the ladder the actuals of the request will be put into.
CloseCostsReads(c, q) == ReadsQuote(c, [op |-> "close", on |-> q, current |-> TRUE])

QuoteAnswered(c) == quoteCall' = [quoteCall EXCEPT ![c] = NoQuoteCall]

\* The transaction of revise: the next version, and the row that was read is
\* superseded by it, whatever it is by now.
ReviseWrites(c) ==
  /\ quoteCall[c].op = "revise" /\ Len(quotes) < MaxQuotes
  /\ LET q == quoteCall[c].on IN
       quotes' = Append([quotes EXCEPT ![q].status = "superseded", ![q].heir = Len(quotes) + 1],
                        Draft(quotes[q].version + 1))
  /\ QuoteAnswered(c)
  /\ UNCHANGED <<actualsLost, quotesRaced>>

\* (quotation.approved, emitted with it, has no consumer.)
ApproveWrites(c) ==
  /\ quoteCall[c].op = "approve"
  /\ quotes' = [quotes EXCEPT ![quoteCall[c].on].status = "approved"]
  /\ QuoteAnswered(c)
  /\ UNCHANGED <<actualsLost, quotesRaced>>

\* The ladder replaces the row's, and that of any other call is an old one.
CloseCostsWrites(c) ==
  /\ quoteCall[c].op = "close"
  /\ actualsLost' = (actualsLost \/ ~quoteCall[c].current)
  /\ quoteCall' = [d \in QuoteCalls |->
       CASE d = c -> NoQuoteCall
         [] d # c /\ quoteCall[d].op = "close" /\ quoteCall[d].on = quoteCall[c].on ->
              [quoteCall[d] EXCEPT !.current = FALSE]
         [] OTHER -> quoteCall[d]]
  /\ UNCHANGED <<quotes, quotesRaced>>

\* The database refuses the write (another call took the ref), or the call dies.
QuoteCallFails(c) ==
  /\ quoteCall[c] # NoQuoteCall
  /\ QuoteAnswered(c)
  /\ UNCHANGED <<quotes, actualsLost, quotesRaced>>

QuotationNext ==
  \/ BuildQuotation
  \/ \E c \in QuoteCalls :
       \/ \E q \in QuoteRefs :
            ReviseReads(c, q) \/ ApproveReads(c, q) \/ CloseCostsReads(c, q)
       \/ ReviseWrites(c) \/ ApproveWrites(c) \/ CloseCostsWrites(c) \/ QuoteCallFails(c)

QuotationSpec == QuotationInit /\ [][QuotationNext]_quoteVars

----------------------------------------------------------------------------
(* Properties                                                              *)

\* Every line of quotations (each starts with a version 1) has one version the
\* customer can be held to: the others are superseded.
OneLiveEach ==
  Cardinality({q \in QuoteRefs : NotSuperseded(q)})
    = Cardinality({q \in QuoteRefs : quotes[q].version = 1})

\* As long as no two requests about one quotation overlap, a revision leaves one
\* live version of it and no actual that was landed is lost.
UndisturbedQuotes == ~quotesRaced => (OneLiveEach /\ ~actualsLost)
============================================================================
