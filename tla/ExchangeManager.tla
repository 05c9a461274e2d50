--------------------------- MODULE ExchangeManager ---------------------------
(***************************************************************************)
(* The subscriptions of the exchange manager (ExchangeManager.cpp):        *)
(* strategies share the symbols the exchanges poll, by counting.  Its      *)
(* sessions, which no lock protects, are modelled with the threads that    *)
(* race for them (FlowRuns).                                               *)
(*                                                                         *)
(* Of the exchanges, TickFlow alone keeps the symbols it is told to poll;  *)
(* the others inherit methods that do nothing.                             *)
(***************************************************************************)
EXTENDS Integers, FiniteSets

CONSTANTS
  Strategies,  \* the strategies
  Exchanges,   \* the registered exchanges
  Symbols,     \* the instruments
  Required     \* the exchanges the data sources of a strategy resolve to

ASSUME RequiredAssumption == Required \in [Strategies -> SUBSET Exchanges]
ASSUME StrategiesAssumption == IsFiniteSet(Strategies)

VARIABLES
  subscription,  \* _strategySubscriptions, {} where there is no entry
  symbolCount,   \* _symbolRefCounts, 0 where there is no entry
  watched        \* the symbols each exchange was told to poll

quotes == <<subscription, symbolCount, watched>>

InitManager ==
  /\ subscription = [st \in Strategies |-> {}]
  /\ symbolCount = [s \in Symbols |-> 0]
  /\ watched = [e \in Exchanges |-> {}]

ManagerTypeOK ==
  /\ subscription \in [Strategies -> SUBSET Symbols]
  /\ symbolCount \in [Symbols -> Nat]
  /\ watched \in [Exchanges -> SUBSET Symbols]

Subscribers(s) == {st \in Strategies : s \in subscription[st]}

-----------------------------------------------------------------------------
(* Both methods run under _subMtx. *)

\* Mutant: a symbol is counted again only for a new strategy.
SubscribeFirst(st, names, symbols) ==
  /\ subscription' = [subscription EXCEPT ![st] = symbols]
  /\ symbolCount' = [s \in Symbols |->
       IF s \in symbols /\ subscription[st] = {}
         THEN symbolCount[s] + 1 ELSE symbolCount[s]]
  /\ watched' = [e \in Exchanges |->
       IF e \in names
         THEN watched[e] \cup {s \in symbols : symbolCount[s] = 0}
         ELSE watched[e]]

\* A new set replaces the old one, whose symbols stay counted; the exchanges
\* are told of a symbol only when it was not counted yet.
SubscribeSymbols(st, names, symbols) ==
  /\ subscription' = [subscription EXCEPT ![st] = symbols]
  /\ symbolCount' = [s \in Symbols |->
       IF s \in symbols THEN symbolCount[s] + 1 ELSE symbolCount[s]]
  /\ watched' = [e \in Exchanges |->
       IF e \in names
         THEN watched[e] \cup {s \in symbols : symbolCount[s] = 0}
         ELSE watched[e]]

\* Mutants: the exchanges drop every symbol of the strategy; the last reference
\* is not the one that drops it.
UnsubscribeAll(st, names) ==
  /\ subscription' = [subscription EXCEPT ![st] = {}]
  /\ symbolCount' = [s \in Symbols |->
       IF s \in subscription[st] THEN symbolCount[s] - 1 ELSE symbolCount[s]]
  /\ watched' = [e \in Exchanges |->
       IF e \in names THEN watched[e] \ subscription[st] ELSE watched[e]]

UnsubscribeLate(st, names) ==
  /\ subscription' = [subscription EXCEPT ![st] = {}]
  /\ symbolCount' = [s \in Symbols |->
       IF s \in subscription[st] THEN symbolCount[s] - 1 ELSE symbolCount[s]]
  /\ watched' = [e \in Exchanges |->
       IF e \in names
         THEN watched[e] \ {s \in subscription[st] : symbolCount[s] = 0}
         ELSE watched[e]]

UnsubscribeSymbols(st, names) ==
  /\ subscription' = [subscription EXCEPT ![st] = {}]
  /\ symbolCount' = [s \in Symbols |->
       IF s \in subscription[st] /\ symbolCount[s] > 0
         THEN symbolCount[s] - 1 ELSE symbolCount[s]]
  /\ watched' = [e \in Exchanges |->
       IF e \in names
         THEN watched[e] \ {s \in subscription[st] : symbolCount[s] = 1}
         ELSE watched[e]]
=============================================================================
