----------------------------- MODULE ResetGrants -----------------------------
(***************************************************************************)
(* What resetting the password of an account promises, without codes,      *)
(* clocks or handlers: a grant is open until it is claimed or withdrawn    *)
(* and does not open again, a claim takes one open grant, and a claim      *)
(* changes the password at most once.                                      *)
(***************************************************************************)
CONSTANTS
  Grants,
  Claims,
  Nobody     \* claimed by no one; the password nobody reset

VARIABLES
  grant,     \* "none", "open" or "closed"
  claim,     \* the grant each claim took, or Nobody
  spent,     \* claims that changed the password
  password   \* the claim that changed it last, or Nobody

grantVars == <<grant, claim, spent, password>>

GrantsInit ==
  /\ grant = [g \in Grants |-> "none"]
  /\ claim = [c \in Claims |-> Nobody]
  /\ spent = {}
  /\ password = Nobody

Open(g) ==
  /\ grant[g] = "none"
  /\ grant' = [grant EXCEPT ![g] = "open"]
  /\ UNCHANGED <<claim, spent, password>>

\* A newer grant is on its way, or the account is removed.
Withdraw(S) ==
  /\ \A g \in S : grant[g] = "open"
  /\ grant' = [g \in Grants |-> IF g \in S THEN "closed" ELSE grant[g]]
  /\ UNCHANGED <<claim, spent, password>>

Claim(c, g) ==
  /\ grant[g] = "open" /\ claim[c] = Nobody
  /\ grant' = [grant EXCEPT ![g] = "closed"]
  /\ claim' = [claim EXCEPT ![c] = g]
  /\ UNCHANGED <<spent, password>>

Change(c) ==
  /\ claim[c] # Nobody /\ c \notin spent
  /\ spent' = spent \cup {c}
  /\ password' = c
  /\ UNCHANGED <<grant, claim>>

GrantsNext ==
  \/ \E S \in SUBSET Grants : Withdraw(S)
  \/ \E g \in Grants : Open(g)
  \/ \E c \in Claims : Change(c)
  \/ \E c \in Claims, g \in Grants : Claim(c, g)

GrantsSpec == GrantsInit /\ [][GrantsNext]_grantVars

-----------------------------------------------------------------------------
(* What the promise comes to *)

GrantsTypeOK ==
  /\ grant \in [Grants -> {"none", "open", "closed"}]
  /\ claim \in [Claims -> Grants \cup {Nobody}]
  /\ spent \subseteq Claims

\* No two claims have taken one grant, and a grant that was taken is closed.
ClaimsApart ==
  /\ \A c, d \in Claims : claim[c] = claim[d] /\ claim[c] # Nobody => c = d
  /\ \A c \in Claims : claim[c] # Nobody => grant[claim[c]] = "closed"

\* Whatever changed the password took a grant, and the password in force is
\* one of those set so.
ChangesAreClaimed ==
  /\ \A c \in spent : claim[c] # Nobody
  /\ password \in spent \/ (password = Nobody /\ spent = {})

GrantsInv == GrantsTypeOK /\ ClaimsApart /\ ChangesAreClaimed

\* A grant that is closed, and what a claim took, are so for good.
ClosedForGood ==
  [][/\ \A g \in Grants : grant[g] = "closed" => grant'[g] = "closed"
     /\ \A c \in Claims : claim[c] # Nobody => claim'[c] = claim[c]
     /\ spent \subseteq spent']_grantVars
=============================================================================
