------------------------------- MODULE MCSale -------------------------------
(***************************************************************************)
(* The retail checkout and the bar tab, for TLC. They share no state, so   *)
(* that a behaviour is one of the two, as part says, and the other stands  *)
(* still.                                                                  *)
(***************************************************************************)
EXTENDS RetailOrder

CONSTANTS Rounds, Requests, Shares  \* BarTab

ASSUME TabAssumption == IsFiniteSet(Requests) /\ Requests # {}

VARIABLES
  part,
  tab, item, doing, number, numbered, unsettled, share, receiver, seen,
  tabLost, tabState, tabTold

tabVars == <<tab, item, doing, number, numbered, unsettled, share, receiver, seen,
             tabLost, tabState, tabTold>>

Bar == INSTANCE BarTab WITH lost <- tabLost, state <- tabState, told <- tabTold

SaleInit == part \in {"retail", "bar"} /\ Init /\ Bar!Init

SaleNext ==
  \/ part = "retail" /\ Next /\ UNCHANGED <<part, tabVars>>
  \/ part = "bar" /\ Bar!Next /\ UNCHANGED <<part, vars>>

SaleSpec == SaleInit /\ [][SaleNext]_<<part, vars, tabVars>>

\* Each is scheduled as its module says.
FairSaleSpec == SaleSpec /\ Fairness /\ Bar!Fairness

\* The states of both are of their types.
SaleTypeOK == TypeOK /\ Bar!TypeOK

\* A settled tab and its paid shares were paid (BarTab).
SettledWasPaid == Bar!SettledWasPaid

\* Rounds come late only from requests that had read an open tab (BarTab).
LateRounds == Bar!LateRounds

\* Rounds are numbered without a gap (BarTab).
RoundsInSequence == Bar!RoundsInSequence

\* A settled tab is taken back only by requests that had read it open (BarTab).
UnsettledBound == Bar!UnsettledBound

\* A tab whose shares are all paid is settled (BarTab).
PaidTabSettles == Bar!PaidTabSettles

-----------------------------------------------------------------------------
\* The small instance: four carts that compete for two variants, two of them in
\* opposite order.
MCCart == [o1 |-> <<"a", "b">>, o2 |-> <<"b", "a">>, o3 |-> <<"a">>, o4 |-> <<"b">>]
MCQuantity == [o1 |-> 1, o2 |-> 2, o3 |-> 2, o4 |-> 1]
MCStock == [a |-> 2, b |-> 2]
MCPushes == {<<"o1", 1>>, <<"o1", 2>>, <<"o2", 1>>, <<"o3", 1>>, <<"o4", 1>>}
=============================================================================
