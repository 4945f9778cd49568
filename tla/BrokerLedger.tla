---------------------------- MODULE BrokerLedger ----------------------------
(***************************************************************************)
(* The broker audit ledger (src/nlp_trader/broker/audit.py): an append-    *)
(* only sequence of events, and the three questions the executor asks it.  *)
(*                                                                         *)
(* An event is a record [type, id, cfg, ts, date, target, nonce, items]:   *)
(*   id      client order or action id, NoName for events that carry none  *)
(*   cfg     the config (and so the environment) that wrote the event      *)
(*   ts      event_ts                                                      *)
(*   date    order_date of an order event                                  *)
(*   target  the broker order id of cancel and accepted events             *)
(*   nonce   the marker of a kill-switch event                             *)
(*   items   the evidence list of a reconciliation                         *)
(* Hash chaining and the JSON encoding are left out: a torn last line is   *)
(* the only damage the model lets the file suffer (BrokerExecutor!torn).   *)
(***************************************************************************)
EXTENDS Integers, Sequences, FiniteSets

\* audit.py _UNRESOLVED_EVENTS and _RESOLVED_EVENTS
UnresolvedEvents == {"broker_order_attempt", "broker_order_unknown",
                     "broker_cancel_attempt", "broker_cancel_unknown"}
ResolvedEvents == {"broker_order_accepted", "broker_order_rejected",
                   "broker_cancel_accepted", "broker_cancel_rejected"}
AttemptEvents == {"broker_order_attempt", "broker_cancel_attempt"}
UnknownEvents == {"broker_order_unknown", "broker_cancel_unknown"}
OtherEvents == {"broker_order_preflight", "broker_reconciliation",
                "broker_kill_switch_engaged",
                "broker_kill_switch_release_authorized"}
EventTypes == UnresolvedEvents \cup ResolvedEvents \cup OtherEvents

\* The positions of id's events whose type is in types.
EventsOf(l, id, types) == {i \in DOMAIN l : l[i].id = id /\ l[i].type \in types}

\* An id is unresolved when some attempt or unknown event of it has no later
\* outcome: what the add/discard fold over the events computes.
IsUnresolved(l, id) ==
    \E i \in EventsOf(l, id, UnresolvedEvents) :
        \A j \in EventsOf(l, id, ResolvedEvents) : j < i

Seen(l, id) == \E i \in DOMAIN l : l[i].id = id

\* The orders whose accepted notional counts towards a Japan trading date. One
\* id counts once however many accepted events it has.
AcceptedOn(l, date) ==
    {l[i].id : i \in {j \in DOMAIN l : /\ l[j].type = "broker_order_accepted"
                                       /\ l[j].date = date}}

\* append() refuses an event dated before the last one.
InOrder(l, ts) == l # <<>> => l[Len(l)].ts <= ts
=============================================================================
