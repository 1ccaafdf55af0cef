----------------------------- MODULE OrderBook -----------------------------
(***************************************************************************)
(* What the sales order operations promise their callers: each of them     *)
(* happens at one instant or not at all.  OrderFulfilment implements it    *)
(* with overlapping transactions (OrderFulfilment!ImplementsOrderBook).    *)
(*                                                                         *)
(* A reservation is named by its line here: a line has one at most.        *)
(***************************************************************************)
EXTENDS Quantities

CONSTANTS Order, Line, Balance, LineOrder, LineBalance, LineQty, StockLevels,
          InitialLines

VARIABLES onHand, orders, live, reserved, nextValue

vars == <<onHand, orders, live, reserved, nextValue>>

\* number 0 stands for a null doc_number; priced is the set of lines the
\* totals were computed over.
Absent == [status |-> "absent", version |-> 0, number |-> 0, priced |-> {}]

Draft(version, lines) ==
  [status |-> "draft", version |-> version, number |-> 0, priced |-> lines]

LinesOf(o) == {l \in live : LineOrder[l] = o}

PromisedOn(b, lines) == Total({l \in lines : LineBalance[l] = b}, LineQty)

Init ==
  /\ onHand \in [Balance -> StockLevels]
  /\ live = InitialLines
  /\ orders = [o \in Order |-> IF LinesOf(o) = {} THEN Absent
                               ELSE Draft(1, LinesOf(o))]
  /\ reserved = {}
  /\ nextValue = 1

Create(o, lines) ==
  /\ orders[o] = Absent
  /\ lines # {} /\ lines \cap live = {}
  /\ \A l \in lines : LineOrder[l] = o
  /\ orders' = [orders EXCEPT ![o] = Draft(1, lines)]
  /\ live' = live \cup lines
  /\ UNCHANGED <<onHand, reserved, nextValue>>

\* The whole document is replaced: no line of the old one survives.
Edit(o, lines) ==
  /\ orders[o].status = "draft"
  /\ lines # {} /\ lines \cap live = {}
  /\ \A l \in lines : LineOrder[l] = o
  /\ orders' = [orders EXCEPT ![o] = Draft(@.version + 1, lines)]
  /\ live' = (live \ LinesOf(o)) \cup lines
  /\ UNCHANGED <<onHand, reserved, nextValue>>

\* All the lines are reserved, or none is and no number is spent.
Confirm(o) ==
  /\ orders[o].status = "draft"
  /\ \A b \in Balance : PromisedOn(b, reserved \cup LinesOf(o)) <= onHand[b]
  /\ reserved' = reserved \cup LinesOf(o)
  /\ orders' = [orders EXCEPT ![o].status = "confirmed",
                              ![o].number = nextValue, ![o].version = @ + 1]
  /\ nextValue' = nextValue + 1
  /\ UNCHANGED <<onHand, live>>

\* Everything the order holds is given back; its number stays with it.
Cancel(o) ==
  /\ orders[o].status \in {"draft", "confirmed"}
  /\ reserved' = reserved \ LinesOf(o)
  /\ orders' = [orders EXCEPT ![o].status = "cancelled", ![o].version = @ + 1]
  /\ UNCHANGED <<onHand, live, nextValue>>

Next ==
  \E o \in Order :
    \/ \E lines \in SUBSET Line : Create(o, lines) \/ Edit(o, lines)
    \/ Confirm(o)
    \/ Cancel(o)

Spec == Init /\ [][Next]_vars
=============================================================================
