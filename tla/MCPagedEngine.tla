--------------------------- MODULE MCPagedEngine ---------------------------
(***************************************************************************)
(* Small instances of PagedEngine.  The page an allocation returns is      *)
(* fixed by CHOOSE instead of quantified: free pages occur nowhere else in *)
(* the state (PageSafety), so behaviours that differ in that choice differ *)
(* by a renaming of pages only.                                            *)
(***************************************************************************)
EXTENDS PagedEngine

(* Two-page prompts with a common first page, so that a chain can lose its *)
(* head to eviction while its tail stays cached.                           *)
TwoPageRequests ==
  {[prompt |-> <<1, 1, 1, 1>>, maxNew |-> 1],
   [prompt |-> <<1, 1, 2, 2>>, maxNew |-> 1],
   [prompt |-> <<1, 1>>,       maxNew |-> 2]}

(* The last request reaches the context limit of 4 before its max_new, the *)
(* other ends on max_new.  They share nothing: when one is retired and     *)
(* cached, two of the other do not fit without an eviction.                *)
LimitRequests ==
  {[prompt |-> <<1, 1>>,    maxNew |-> 2],
   [prompt |-> <<2, 2, 1>>, maxNew |-> 3]}

MCNext ==
  \/ \E r \in Request : Add(r)
  \/ /\ Cardinality(free) >= Cardinality(Fresh(admitting.prompt))
     /\ LET fresh == CHOOSE f \in Injection(Fresh(admitting.prompt), free) : TRUE
        IN  Install(fresh) \/ InstallFails(fresh)
  \/ RetryAdmission(CHOOSE f \in Injection(Backed(admitting.prompt), free) : TRUE)
  \/ Step
  \/ \E part \in {"outputs", "limit"}, s \in Slot : FinishNext(part, s)
  \/ \E s \in Slot : Cancel(s)
  \/ TrimRetired

MCSpec == Init /\ [][MCNext]_vars

MCFairSpec == MCSpec /\ Fairness
=============================================================================
