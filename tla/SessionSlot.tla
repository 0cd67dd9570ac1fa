---------------------------- MODULE SessionSlot ----------------------------
(***************************************************************************)
(* What the refresh-token design promises, without handlers: a user has    *)
(* one slot, holding at most one refresh token.  A sign-in opens a family  *)
(* of tokens, refreshing hands the slot from a token of the family to a    *)
(* fresh one of the same family, and a family that loses the slot, to      *)
(* another sign-in, a logout, a password reset or the account's removal,   *)
(* has ended for good.                                                     *)
(***************************************************************************)

CONSTANTS Users, Tokens, NULL

VARIABLES
  slot,    \* the token each user may refresh with, or NULL
  family,  \* for a token that has held a slot, the sign-in token it descends from
  ended    \* families that have lost their slot

slotVars == <<slot, family, ended>>

Fresh(t) == family[t] = NULL

\* The families ended by emptying or taking over u's slot.
EndedWith(u) ==
  IF slot[u] = NULL THEN ended ELSE ended \cup {family[slot[u]]}

SlotInit ==
  /\ slot = [u \in Users |-> NULL]
  /\ family = [t \in Tokens |-> NULL]
  /\ ended = {}

Open(u, t) ==
  /\ Fresh(t)
  /\ slot' = [slot EXCEPT ![u] = t]
  /\ family' = [family EXCEPT ![t] = t]
  /\ ended' = EndedWith(u)

Exchange(u, t) ==
  /\ slot[u] # NULL
  /\ Fresh(t)
  /\ slot' = [slot EXCEPT ![u] = t]
  /\ family' = [family EXCEPT ![t] = family[slot[u]]]
  /\ UNCHANGED ended

Close(u) ==
  /\ slot[u] # NULL
  /\ slot' = [slot EXCEPT ![u] = NULL]
  /\ ended' = EndedWith(u)
  /\ UNCHANGED family

SlotNext ==
  \E u \in Users : Close(u) \/ \E t \in Tokens : Open(u, t) \/ Exchange(u, t)

SlotSpec == SlotInit /\ [][SlotNext]_slotVars

-----------------------------------------------------------------------------

SlotTypeOK ==
  /\ slot \in [Users -> Tokens \cup {NULL}]
  /\ family \in [Tokens -> Tokens \cup {NULL}]
  /\ ended \subseteq Tokens

\* Families are named by the token that opened them.
FamiliesOpened ==
  /\ \A t \in Tokens : family[t] # NULL => family[family[t]] = family[t]
  /\ \A f \in ended : family[f] = f

\* Every token in a slot belongs to a family, and two slots never share one.
SlotsDisjoint ==
  \A u \in Users : slot[u] # NULL =>
    /\ family[slot[u]] # NULL
    /\ \A v \in Users : v # u /\ slot[v] # NULL => family[slot[u]] # family[slot[v]]

\* A family that has ended holds no slot, ever again.
EndedHoldNoSlot ==
  \A u \in Users : slot[u] # NULL => family[slot[u]] \notin ended

SlotInv == SlotTypeOK /\ FamiliesOpened /\ SlotsDisjoint /\ EndedHoldNoSlot

=============================================================================
