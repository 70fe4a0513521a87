--------------------------- MODULE DispatchProofs ---------------------------
(***************************************************************************)
(* Proofs about Dispatch for any groups, turns, children, dispatch ids and *)
(* bounds.                                                                 *)
(*                                                                         *)
(* The fence.  Whoever releases a number leaves nothing owned under it, and*)
(* nothing is owned under it until a child of that number claims; so a     *)
(* child whose claim lies before the last release (cut) has no authority.  *)
(*                                                                         *)
(* The incomplete bundles.  A tick of a version-scoped claimer has its own *)
(* group at most, and a tenant-scoped one dispatches to no broken group;   *)
(* so no child belongs to a broken group, and only a child claims.         *)
(*                                                                         *)
(* The pool.  Entries stand in a sequence without repetition that is never *)
(* longer than the pool; a template runs only for an entry, unless a former*)
(* claimer left it with the host, and whoever starts one stops those first *)
(* that its pool no longer holds.                                          *)
(***************************************************************************)
EXTENDS Dispatch, FiniteSetTheorems, SequenceTheorems, TLAPS

StartKid == [pc : {"start"}, g : Group, id : DispatchId, cut : {FALSE}]
WorkKid == [pc : {"work", "done", "bad"}, g : Group, id : DispatchId, cut : BOOLEAN, item : Item]
Kid == {NoOne} \cup StartKid \cup WorkKid

\* Without authority, once cut off.
FencedBy(kids, o) == \A c \in Child : (kids[c].pc # "none" /\ kids[c].cut) => o[kids[c].id] = Nothing

KidsOK(kids, o) == kids \in [Child -> Kid] /\ FencedBy(kids, o)

OwnedSet == [DispatchId -> [jobs : SUBSET Item, runs : SUBSET Turn]]
OwnedOK == owned \in OwnedSet

FenceInv == OwnedOK /\ KidsOK(child, owned)

-----------------------------------------------------------------------------
(* Children.                                                               *)

LEMMA KidFacts ==
  ASSUME NEW k \in Kid
  PROVE  /\ k.pc = "none" => k = NoOne
         /\ k.pc = "start" => k \in StartKid /\ k.cut = FALSE
         /\ k.pc \notin {"none", "start"} => k \in WorkKid
         /\ k.pc # "none" => k.id \in DispatchId /\ k.g \in Group /\ k.cut \in BOOLEAN
         /\ k.pc \in {"none", "start", "work", "done", "bad"}
<1>1. CASE k = NoOne BY <1>1 DEF NoOne
<1>2. CASE k \in StartKid BY <1>2 DEF StartKid
<1>3. CASE k \in WorkKid BY <1>3 DEF WorkKid
<1> QED BY <1>1, <1>2, <1>3 DEF Kid

\* A child at work changes its pc or is cut off, and nothing else of it changes.
LEMMA KidAtWork ==
  ASSUME NEW k \in WorkKid, NEW p \in {"work", "done", "bad"}, NEW b \in BOOLEAN
  PROVE  /\ [k EXCEPT !.pc = p] \in WorkKid
         /\ [k EXCEPT !.pc = p].id = k.id /\ [k EXCEPT !.pc = p].cut = k.cut
         /\ [k EXCEPT !.pc = p].pc = p
         /\ [k EXCEPT !.pc = p].g = k.g
         /\ [k EXCEPT !.cut = b] \in WorkKid
         /\ [k EXCEPT !.cut = b].id = k.id /\ [k EXCEPT !.cut = b].pc = k.pc
         /\ [k EXCEPT !.cut = b].cut = b
         /\ [k EXCEPT !.cut = b].g = k.g
BY DEF WorkKid

\* A child that is gone leaves the others as they are.
LEMMA RemovedOK ==
  ASSUME NEW kids, NEW o, KidsOK(kids, o), NEW c \in Child
  PROVE  KidsOK([kids EXCEPT ![c] = NoOne], o)
BY DEF KidsOK, FencedBy, Kid, NoOne

\* One child at a release: cut off if it is of that number and has claimed.
CutIf(k, n) == IF k.pc \notin {"none", "start"} /\ k.id = n THEN [k EXCEPT !.cut = TRUE] ELSE k

LEMMA CutKid ==
  ASSUME NEW k \in Kid, NEW n, NEW k2, k2 = CutIf(k, n)
  PROVE  /\ k2 \in Kid /\ k2.pc = k.pc
         /\ k.pc # "none" => k2.g = k.g /\ k2.id = k.id /\ k.id \in DispatchId
         /\ (k2.pc # "none" /\ k2.cut) => (k.id = n \/ k.cut)
<1>1. CASE k.pc \notin {"none", "start"} /\ k.id = n
  <2>1. k \in WorkKid BY <1>1, KidFacts
  <2>2. k2 = [k EXCEPT !.cut = TRUE] BY <1>1 DEF CutIf
  <2>3. k2 \in WorkKid /\ k2.id = k.id /\ k2.pc = k.pc /\ k2.g = k.g
    BY <2>1, <2>2 DEF WorkKid
  <2> QED BY <1>1, <2>1, <2>3, KidFacts DEF Kid
<1>2. CASE ~(k.pc \notin {"none", "start"} /\ k.id = n)
  <2>1. k2 = k BY <1>2 DEF CutIf
  <2> QED BY <2>1, KidFacts
<1> QED BY <1>1, <1>2

\* release: the children of the number are cut off, and stay who they are.
Forgotten(n, o) == [o EXCEPT ![n] = Nothing]

LEMMA CutOffOK ==
  ASSUME NEW kids, NEW o \in OwnedSet, KidsOK(kids, o), NEW n
  PROVE  /\ KidsOK(CutOff(n, kids), Forgotten(n, o)) /\ Forgotten(n, o) \in OwnedSet
         /\ \A c \in Child : CutOff(n, kids)[c].pc = kids[c].pc
         /\ \A c \in Child : kids[c].pc # "none" => CutOff(n, kids)[c].g = kids[c].g
<1> DEFINE new == CutOff(n, kids)
           o2 == Forgotten(n, o)
<1>1. o2 \in OwnedSet BY DEF Nothing, OwnedSet, Forgotten
<1>2. /\ \A m \in DispatchId : o2[m] = IF m = n THEN Nothing ELSE o[m]
  BY DEF OwnedSet, Forgotten
<1>3. /\ new = [c \in Child |-> new[c]]
      /\ \A c \in Child : new[c] = CutIf(kids[c], n)
  BY DEF CutOff, CutIf
<1> HIDE DEF new, o2
<1>4. ASSUME NEW c \in Child
      PROVE  /\ new[c] \in Kid
             /\ new[c].pc = kids[c].pc
             /\ kids[c].pc # "none" => new[c].g = kids[c].g
             /\ (new[c].pc # "none" /\ new[c].cut) => o2[new[c].id] = Nothing
  <2>1. kids[c] \in Kid BY DEF KidsOK
  <2>2. /\ new[c] \in Kid /\ new[c].pc = kids[c].pc
        /\ kids[c].pc # "none" => /\ new[c].g = kids[c].g /\ new[c].id = kids[c].id
                                  /\ kids[c].id \in DispatchId
        /\ (new[c].pc # "none" /\ new[c].cut) => (kids[c].id = n \/ kids[c].cut)
    BY <1>3, <2>1, CutKid
  <2>3. (kids[c].pc # "none" /\ kids[c].cut) => o[kids[c].id] = Nothing
    BY DEF KidsOK, FencedBy
  <2>4. (new[c].pc # "none" /\ new[c].cut) => o2[new[c].id] = Nothing
    BY <1>2, <2>2, <2>3
  <2> QED BY <2>2, <2>4
<1>5. new \in [Child -> Kid] BY <1>3, <1>4
<1>6. FencedBy(new, o2) BY <1>4 DEF FencedBy
<1>7. KidsOK(new, o2) BY <1>5, <1>6 DEF KidsOK
<1> QED BY <1>1, <1>4, <1>7 DEF new, o2

\* What happens to a step's children when the step releases their dispatch.
LEMMA ReleasedOK ==
  ASSUME OwnedOK, NEW kids, KidsOK(kids, owned), NEW n, Released(n, kids)
  PROVE  /\ FenceInv'
         /\ \A c \in Child : child'[c].pc = kids[c].pc
         /\ \A c \in Child : kids[c].pc # "none" => child'[c].g = kids[c].g
<1>1. owned' = Forgotten(n, owned) /\ child' = CutOff(n, kids)
  BY DEF Released, Forgotten
<1>2. owned \in OwnedSet BY DEF OwnedOK
<1>3. /\ KidsOK(child', owned') /\ owned' \in OwnedSet
      /\ \A c \in Child : child'[c].pc = kids[c].pc
      /\ \A c \in Child : kids[c].pc # "none" => child'[c].g = kids[c].g
  BY <1>1, <1>2, CutOffOK
<1> QED BY <1>3 DEF OwnedOK, FenceInv

LEMMA ExitsOK ==
  ASSUME FenceInv, NEW c \in Child, NEW outcome, Exits(c, outcome)
  PROVE  /\ FenceInv'
         /\ child'[c].pc = "none"
         /\ \A d \in Child \ {c} : child'[d].pc = child[d].pc
         /\ \A d \in Child \ {c} : child[d].pc # "none" => child'[d].g = child[d].g
<1> DEFINE kids == [child EXCEPT ![c] = NoOne]
<1>1. KidsOK(kids, owned) BY RemovedOK DEF FenceInv
<1>2. /\ kids[c].pc = "none"
      /\ \A d \in Child \ {c} : kids[d] = child[d]
  BY DEF FenceInv, KidsOK, NoOne
<1>3. CASE Waits(c)
  <2>1. Released(clm.id, kids) BY <1>3 DEF Exits, ComesBack
  <2> HIDE DEF kids
  <2>2. /\ FenceInv'
        /\ \A d \in Child : child'[d].pc = kids[d].pc
        /\ \A d \in Child : kids[d].pc # "none" => child'[d].g = kids[d].g
    BY <1>1, <2>1, ReleasedOK DEF FenceInv
  <2> QED BY <1>2, <2>2
<1>4. CASE ~Waits(c)
  <2>1. child' = kids /\ UNCHANGED owned BY <1>4 DEF Exits
  <2>2. FenceInv' BY <1>1, <2>1 DEF FenceInv, OwnedOK
  <2> QED BY <1>2, <2>1, <2>2
<1> QED BY <1>3, <1>4

-----------------------------------------------------------------------------
(* The fence.                                                              *)

Fence == \A c \in Child : (c \in Living /\ child[c].cut /\ child'[c].pc # child[c].pc)
                          => UNCHANGED rows

\* Who is cut off can neither write a run nor report an item.
LEMMA CutHasNothing ==
  ASSUME FenceInv, NEW c \in Child, child[c].pc # "none", child[c].cut
  PROVE  ~OwnRun(c) /\ \A i : ~OwnJob(c, i)
<1>1. owned[child[c].id] = Nothing BY DEF FenceInv, KidsOK, FencedBy
<1> QED BY <1>1 DEF OwnRun, OwnJob, Authority, Nothing

LEMMA FreshKid ==
  ASSUME NEW g \in Group, NEW n \in DispatchId, NEW k,
         k = [pc |-> "start", g |-> g, id |-> n, cut |-> FALSE]
  PROVE  k \in StartKid /\ k.cut = FALSE /\ k.g = g
BY DEF StartKid

LEMMA FenceDispatchTo ==
  ASSUME FenceInv, NEW g \in Group, NEW n \in DispatchId, DispatchTo(g, n)
  PROVE  FenceInv' /\ Fence
<1>1. Free # {} /\ UNCHANGED <<owned, rows>> BY DEF DispatchTo
<1>2. NewChild \in Child BY <1>1 DEF NewChild, Free
<1>3. PICK k : k = [pc |-> "start", g |-> g, id |-> n, cut |-> FALSE] OBVIOUS
<1>4. k \in Kid /\ k.cut = FALSE BY <1>3, FreshKid DEF Kid
<1>5. child' = [child EXCEPT ![NewChild] = k] BY <1>3 DEF DispatchTo
<1>6. child' \in [Child -> Kid] BY <1>2, <1>4, <1>5 DEF FenceInv, KidsOK
<1>7. FencedBy(child', owned') BY <1>1, <1>2, <1>4, <1>5 DEF FenceInv, KidsOK, FencedBy
<1> QED BY <1>1, <1>6, <1>7 DEF FenceInv, KidsOK, FencedBy, OwnedOK, Fence

\* One child at a claim: what is claimed is within the reach of its number.
ShareIf(k, n) == IF k.pc # "none" /\ k.id = n THEN [k EXCEPT !.cut = FALSE] ELSE k

LEMMA SharedKid ==
  ASSUME NEW k \in Kid, NEW n, NEW k2, k2 = ShareIf(k, n)
  PROVE  /\ k2 \in Kid /\ k2.pc = k.pc
         /\ k.pc # "none" => k2.g = k.g /\ k2.id = k.id /\ k.id \in DispatchId
         /\ (k2.pc # "none" /\ k2.cut) => (k.id # n /\ k.cut)
<1>1. CASE k.pc # "none" /\ k.id = n
  <2>1. k2 = [k EXCEPT !.cut = FALSE] BY <1>1 DEF ShareIf
  <2>2. CASE k \in StartKid
    <3>1. k2 \in StartKid /\ k2.id = k.id /\ k2.pc = k.pc /\ k2.g = k.g /\ k2.cut = FALSE
      BY <2>1, <2>2 DEF StartKid
    <3> QED BY <3>1, KidFacts DEF Kid
  <2>3. CASE k \in WorkKid
    <3>1. k2 \in WorkKid /\ k2.id = k.id /\ k2.pc = k.pc /\ k2.g = k.g /\ k2.cut = FALSE
      BY <2>1, <2>3 DEF WorkKid
    <3> QED BY <3>1, KidFacts DEF Kid
  <2> QED BY <1>1, <2>2, <2>3 DEF Kid, NoOne
<1>2. CASE ~(k.pc # "none" /\ k.id = n)
  <2>1. k2 = k BY <1>2 DEF ShareIf
  <2> QED BY <1>2, <2>1, KidFacts
<1> QED BY <1>1, <1>2

LEMMA SharedOK ==
  ASSUME FenceInv, NEW n, NEW c \in Child
  PROVE  /\ Shared(n)[c] \in Kid /\ Shared(n)[c].pc = child[c].pc
         /\ child[c].pc # "none" =>
              /\ Shared(n)[c].g = child[c].g /\ Shared(n)[c].id = child[c].id
              /\ child[c].id \in DispatchId
         /\ (Shared(n)[c].pc # "none" /\ Shared(n)[c].cut) => (child[c].id # n /\ child[c].cut)
<1>1. Shared(n)[c] = ShareIf(child[c], n) BY DEF Shared, ShareIf, Living
<1>2. child[c] \in Kid BY DEF FenceInv, KidsOK
<1> QED BY <1>1, <1>2, SharedKid

ClaimedKid(c, i) == [pc |-> "work", g |-> child[c].g, id |-> child[c].id, cut |-> FALSE, item |-> i]

LEMMA FenceChildClaims ==
  ASSUME FenceInv, NEW c \in Child, NEW i \in Item, ChildClaims(c, i)
  PROVE  FenceInv' /\ Fence
<1> DEFINE n == child[c].id
           old == Shared(n)
<1>0. child[c] \in StartKid /\ child[c].cut = FALSE /\ child[c].pc = "start"
  <2>1. child[c] \in Kid BY DEF FenceInv, KidsOK
  <2> QED BY <2>1, KidFacts DEF ChildClaims
<1>1. ClaimedKid(c, i) \in WorkKid /\ ClaimedKid(c, i).cut = FALSE
  BY <1>0 DEF ClaimedKid, WorkKid, StartKid
<1>2. child' = [old EXCEPT ![c] = ClaimedKid(c, i)] BY DEF ChildClaims, ClaimedKid
<1>3. old = [d \in Child |-> old[d]] BY DEF Shared
<1> HIDE DEF old
<1>4. /\ child' = [d \in Child |-> child'[d]]
      /\ child'[c] = ClaimedKid(c, i) /\ \A d \in Child \ {c} : child'[d] = old[d]
  BY <1>2, <1>3
<1>5. \A d \in Child : /\ old[d] \in Kid /\ old[d].pc = child[d].pc
                       /\ child[d].pc # "none" => /\ old[d].id = child[d].id
                                                  /\ child[d].id \in DispatchId
                       /\ (old[d].pc # "none" /\ old[d].cut) => (child[d].id # n /\ child[d].cut)
  BY SharedOK DEF old
<1>6. child' \in [Child -> Kid] BY <1>1, <1>4, <1>5 DEF Kid
<1>7. owned' = [owned EXCEPT ![n] = Own(@, i)] /\ n \in DispatchId
  BY <1>0 DEF ChildClaims, StartKid
<1>8. OwnedOK'
  <2>1. Own(owned[n], i) \in [jobs : SUBSET Item, runs : SUBSET Turn]
    <3>1. TurnOf(i) \in Turn BY DispatchAssumption DEF Item, TurnOf
    <3>2. owned[n] \in [jobs : SUBSET Item, runs : SUBSET Turn]
      BY <1>7 DEF FenceInv, OwnedOK, OwnedSet
    <3> QED BY <3>1, <3>2 DEF Own
  <2> QED BY <1>7, <2>1 DEF FenceInv, OwnedOK, OwnedSet
<1>9. FencedBy(child', owned')
  <2> SUFFICES ASSUME NEW d \in Child, child'[d].pc # "none", child'[d].cut
               PROVE  owned'[child'[d].id] = Nothing
    BY DEF FencedBy
  <2>1. d # c BY <1>1, <1>4
  <2>2. child[d].pc # "none" /\ child[d].cut /\ child[d].id # n /\ child'[d].id = child[d].id
    BY <1>4, <1>5, <2>1
  <2>3. owned[child[d].id] = Nothing BY <2>2 DEF FenceInv, KidsOK, FencedBy
  <2>4. child[d].id \in DispatchId BY <1>5, <2>2
  <2> QED BY <1>7, <2>2, <2>3, <2>4 DEF FenceInv, OwnedOK, OwnedSet
<1>10. Fence
  <2> SUFFICES ASSUME NEW d \in Child, child[d].cut, child'[d].pc # child[d].pc PROVE FALSE
    BY DEF Fence
  <2>1. d # c BY <1>0
  <2> QED BY <1>4, <1>5, <2>1
<1> QED BY <1>6, <1>8, <1>9, <1>10 DEF FenceInv, KidsOK, FencedBy

\* A child that leaves may be cut off: then the rows are as they were.
LEMMA FenceLeaves ==
  ASSUME FenceInv, NEW c \in Child, NEW outcome, Exits(c, outcome),
         child[c].pc # "none", child[c].cut => UNCHANGED rows
  PROVE  FenceInv' /\ Fence
BY ExitsOK DEF Fence

LEMMA FenceWorks ==
  ASSUME FenceInv, NEW c \in Child, child[c].pc = "work", NEW p \in {"done", "bad"},
         child' = [child EXCEPT ![c].pc = p], UNCHANGED owned,
         child[c].cut => UNCHANGED rows
  PROVE  FenceInv' /\ Fence
<1>1. child[c] \in WorkKid
  <2>1. child[c] \in Kid BY DEF FenceInv, KidsOK
  <2> QED BY <2>1, KidFacts
<1>2. /\ child' = [d \in Child |-> child'[d]]
      /\ child'[c] = [child[c] EXCEPT !.pc = p]
      /\ \A d \in Child \ {c} : child'[d] = child[d]
  BY DEF FenceInv, KidsOK
<1>3. child'[c] \in WorkKid /\ child'[c].id = child[c].id /\ child'[c].cut = child[c].cut
  BY <1>1, <1>2 DEF WorkKid
<1>4. child' \in [Child -> Kid] BY <1>2, <1>3 DEF FenceInv, KidsOK, Kid
<1>5. FencedBy(child', owned') BY <1>2, <1>3 DEF FenceInv, KidsOK, FencedBy
<1>6. Fence BY <1>2 DEF Fence
<1> QED BY <1>4, <1>5, <1>6 DEF FenceInv, KidsOK, FencedBy, OwnedOK

LEMMA FenceChildStep ==
  ASSUME FenceInv, NEW c \in Child, ChildStep(c)
  PROVE  FenceInv' /\ Fence
<1>1. ASSUME NEW i \in Item, ChildClaims(c, i) PROVE FenceInv' /\ Fence
  BY <1>1, FenceChildClaims
<1>2. CASE ChildFindsNothing(c)
  <2>1. child[c] \in Kid BY DEF FenceInv, KidsOK
  <2>2. child[c].pc = "start" /\ child[c].cut = FALSE BY <1>2, <2>1, KidFacts DEF ChildFindsNothing
  <2>3. Exits(c, "nothing") BY <1>2 DEF ChildFindsNothing
  <2> QED BY <2>2, <2>3, FenceLeaves
<1>3. CASE HandlerReturns(c)
  <2>1. child[c].cut => FALSE BY <1>3, CutHasNothing DEF HandlerReturns, MayWork
  <2>2. /\ child[c].pc = "work" /\ child' = [child EXCEPT ![c].pc = "done"] /\ UNCHANGED owned
    BY <1>3 DEF HandlerReturns
  <2> QED BY <2>1, <2>2, FenceWorks
<1>4. CASE HandlerRefused(c)
  <2>1. child[c].pc = "work" /\ UNCHANGED rows BY <1>4 DEF HandlerRefused
  <2>2. CASE child[c].item[1] = "resume"
    <3>1. child' = [child EXCEPT ![c].pc = "bad"] /\ UNCHANGED owned
      BY <1>4, <2>2 DEF HandlerRefused
    <3> QED BY <2>1, <3>1, FenceWorks
  <2>3. CASE child[c].item[1] # "resume"
    <3>1. Exits(c, "error") BY <1>4, <2>3 DEF HandlerRefused
    <3> QED BY <2>1, <3>1, FenceLeaves
  <2> QED BY <2>2, <2>3
<1>5. CASE Report(c)
  <2>1. child[c].pc # "none" /\ UNCHANGED run BY <1>5 DEF Report
  <2>2. \E outcome \in {"ran", "error"} : Exits(c, outcome) BY <1>5 DEF Report
  <2>3. ASSUME child[c].cut PROVE UNCHANGED rows
    <3>1. ~OwnJob(c, child[c].item) BY <2>1, <2>3, CutHasNothing
    <3>2. UNCHANGED queue BY <1>5, <3>1 DEF Report
    <3> QED BY <2>1, <3>2 DEF rows
  <2> QED BY <2>1, <2>2, <2>3, FenceLeaves
<1> QED BY <1>1, <1>2, <1>3, <1>4, <1>5 DEF ChildStep

LEMMA FenceSame ==
  ASSUME FenceInv, UNCHANGED <<child, owned>>
  PROVE  FenceInv' /\ Fence
BY DEF FenceInv, KidsOK, FencedBy, OwnedOK, Fence

LEMMA FenceRaises ==
  ASSUME FenceInv, NEW c \in Child, HandlerRaises(c)
  PROVE  FenceInv' /\ Fence
<1>1. child[c].cut => FALSE BY CutHasNothing DEF HandlerRaises, MayWork
<1>2. /\ child[c].pc = "work" /\ child' = [child EXCEPT ![c].pc = "bad"] /\ UNCHANGED owned
  BY DEF HandlerRaises
<1> QED BY <1>1, <1>2, FenceWorks

LEMMA FenceExpires ==
  ASSUME FenceInv, NEW c \in Child, CapabilityExpires(c)
  PROVE  FenceInv' /\ Fence
<1>1. child' = [child EXCEPT ![c] = NoOne] /\ UNCHANGED <<owned, rows>>
  BY DEF CapabilityExpires
<1>2. KidsOK(child', owned') BY <1>1, RemovedOK DEF FenceInv
<1> QED BY <1>1, <1>2 DEF FenceInv, OwnedOK, Fence

\* No child is left.
LEMMA NobodyLeft ==
  ASSUME NEW kids, kids = [c \in Child |-> NoOne], NEW o
  PROVE  KidsOK(kids, o)
BY DEF KidsOK, FencedBy, Kid, NoOne

LEMMA FenceFail ==
  ASSUME FenceInv, Fail
  PROVE  FenceInv' /\ Fence
<1>1. ASSUME NEW c \in Child, HandlerRaises(c) PROVE FenceInv' /\ Fence
  BY <1>1, FenceRaises
<1>2. ASSUME NEW c \in Child, ChildDies(c) PROVE FenceInv' /\ Fence
  BY <1>2, ExitsOK DEF ChildDies, Fence
<1>3. ASSUME NEW g \in Group, TemplateDies(g) PROVE FenceInv' /\ Fence
  <2>1. CASE clm.pc = "wait" /\ clm.g = g
    <3>1. Released(clm.id, child) BY <1>3, <2>1 DEF TemplateDies, ComesBack
    <3> QED BY <3>1, ReleasedOK DEF FenceInv, Fence
  <2>2. CASE ~(clm.pc = "wait" /\ clm.g = g)
    <3>1. UNCHANGED <<child, owned>> BY <1>3, <2>2 DEF TemplateDies
    <3> QED BY <3>1, FenceSame
  <2> QED BY <2>1, <2>2
<1>4. CASE HostDies
  <2>1. UNCHANGED rows BY <1>4 DEF HostDies
  <2>2. CASE clm.pc = "wait"
    <3>1. PICK kids : kids = [c \in Child |-> NoOne] OBVIOUS
    <3>2. Released(clm.id, kids) BY <1>4, <2>2, <3>1 DEF HostDies, ComesBack
    <3>3. KidsOK(kids, owned) BY <3>1, NobodyLeft
    <3>4. FenceInv' BY <3>2, <3>3, ReleasedOK DEF FenceInv
    <3> QED BY <2>1, <3>4 DEF Fence
  <2>3. CASE clm.pc # "wait"
    <3>1. child' = [c \in Child |-> NoOne] /\ UNCHANGED owned BY <1>4, <2>3 DEF HostDies
    <3>2. KidsOK(child', owned') BY <3>1, NobodyLeft
    <3> QED BY <2>1, <3>1, <3>2 DEF FenceInv, OwnedOK, Fence
  <2> QED BY <2>2, <2>3
<1>5. CASE ClaimerDies
  <2>1. /\ child' = [c \in Child |-> NoOne] /\ UNCHANGED rows
        /\ owned' = [n \in DispatchId |-> Nothing]
    BY <1>5 DEF ClaimerDies
  <2>2. KidsOK(child', owned') BY <2>1, NobodyLeft
  <2>3. OwnedOK' BY <2>1 DEF OwnedOK, OwnedSet, Nothing
  <2> QED BY <2>1, <2>2, <2>3 DEF FenceInv, Fence
<1> QED BY <1>1, <1>2, <1>3, <1>4, <1>5 DEF Fail

LEMMA FenceStep ==
  ASSUME FenceInv, [Next]_vars
  PROVE  FenceInv' /\ Fence
<1>1. CASE \/ \E t \in Turn : Enqueue(t)
           \/ \E t \in Pausing : Approve(t)
           \/ Tick \/ TickEnds
           \/ \E i \in Item : LeaseExpires(i) \/ BecomesDue(i)
  <2>1. UNCHANGED <<child, owned>>
    BY <1>1 DEF Enqueue, Approve, Tick, TickEnds, LeaseExpires, BecomesDue
  <2> QED BY <2>1, FenceSame
<1>2. CASE Serve
  <2>1. ASSUME NEW g \in Group, StartFails(g) \/ Refuse(g) PROVE FenceInv' /\ Fence
    BY <2>1, FenceSame DEF StartFails, Refuse
  <2>2. ASSUME NEW g \in Group, NEW n \in DispatchId, DispatchTo(g, n) PROVE FenceInv' /\ Fence
    BY <2>2, FenceDispatchTo
  <2>3. ASSUME NEW g \in Group, NEW n \in DispatchId, Unreachable(g, n) PROVE FenceInv' /\ Fence
    <3>1. Released(n, child) BY <2>3 DEF Unreachable
    <3> QED BY <3>1, ReleasedOK DEF FenceInv, Fence
  <2> QED BY <1>2, <2>1, <2>2, <2>3 DEF Serve
<1>3. ASSUME NEW c \in Child, ChildStep(c) \/ CapabilityExpires(c) PROVE FenceInv' /\ Fence
  BY <1>3, FenceChildStep, FenceExpires
<1>4. CASE Fail BY <1>4, FenceFail
<1>5. CASE UNCHANGED vars
  <2>1. UNCHANGED <<child, owned>> BY <1>5 DEF vars
  <2> QED BY <2>1, FenceSame
<1> QED BY <1>1, <1>2, <1>3, <1>4, <1>5 DEF Next

\* The release of a dispatch is a fence (pool.py, the finally of WarmTemplate.drain;
\* server.py, release): for any number of groups, children and reused numbers, a
\* child whose claim lies before it changes neither rows nor runs.
THEOREM ReleaseIsAFence == Spec => ReleaseFences
<1>1. Init => FenceInv
  <2> SUFFICES ASSUME Init PROVE FenceInv OBVIOUS
  <2>1. child = [c \in Child |-> NoOne] /\ owned = [n \in DispatchId |-> Nothing] BY DEF Init
  <2>2. KidsOK(child, owned) BY <2>1, NobodyLeft
  <2> QED BY <2>1, <2>2 DEF FenceInv, OwnedOK, OwnedSet, Nothing
<1>2. FenceInv /\ [Next]_vars => FenceInv' BY FenceStep
<1>3. FenceInv /\ [Next]_vars => [Fence]_vars BY FenceStep
<1> QED BY <1>1, <1>2, <1>3, PTL DEF Spec, ReleaseFences, Fence
-----------------------------------------------------------------------------
(* The incomplete bundles.                                                 *)

Rows == [Item -> Q!JobDoc]
ConfOK == conf \in [wide : BOOLEAN, hosted : BOOLEAN, broken : SUBSET (Group \ {Home})]

\* A version-scoped claimer serves its own group.
CandOK == (clm.pc \in {"tick", "wait"} /\ ~conf.wide) => clm.cand \subseteq {Home}

NoBrokenKid == \A c \in Child : child[c].pc # "none" => child[c].g \notin conf.broken

BrokenInv == /\ FenceInv /\ ConfOK /\ queue \in Rows
             /\ CandOK /\ NoBrokenKid /\ BrokenClaimNothing

\* No operation but a claim counts an attempt.
LEMMA DocKept ==
  ASSUME NEW i \in Item, NEW d \in Q!JobDoc,
         NEW e, e \in {Q!Requeued(d), Q!DeadLettered(d), Q!Completed(d), Q!Failed(i, d),
                       [d EXCEPT !.lease = "expired"], [d EXCEPT !.runAt = "due"]}
  PROVE  e \in Q!JobDoc /\ e.attempts = d.attempts
<1>1. CASE e = Q!Requeued(d) BY <1>1 DEF Q!Requeued, Q!JobDoc, Q!Status
<1>2. CASE e = Q!DeadLettered(d) BY <1>2 DEF Q!DeadLettered, Q!JobDoc, Q!Status
<1>3. CASE e = Q!Completed(d) BY <1>3 DEF Q!Completed, Q!JobDoc, Q!Status
<1>4. CASE e = Q!Failed(i, d) BY <1>4 DEF Q!Failed, Q!JobDoc, Q!Status
<1>5. CASE e = [d EXCEPT !.lease = "expired"] BY <1>5 DEF Q!JobDoc
<1>6. CASE e = [d EXCEPT !.runAt = "due"] BY <1>6 DEF Q!JobDoc
<1> QED BY <1>1, <1>2, <1>3, <1>4, <1>5, <1>6

LEMMA DocNew ==
  ASSUME NEW when \in {"due", "later"}
  PROVE  Q!Enqueued(when) \in Q!JobDoc /\ Q!Enqueued(when).attempts = 0
BY DEF Q!Enqueued, Q!Blank, Q!JobDoc, Q!Status

LEMMA DocClaimed ==
  ASSUME NEW d \in Q!JobDoc, NEW w \in WorkerId
  PROVE  Q!Claimed(d, w) \in Q!JobDoc
<1>1. d.attempts + 1 \in Nat BY DEF Q!JobDoc
<1> QED BY <1>1 DEF Q!Claimed, Q!JobDoc, Q!Status

\* What a claim reaps spends nothing.
LEMMA ReapedKeeps ==
  ASSUME queue \in Rows
  PROVE  Reaped \in Rows /\ \A i \in Item : Reaped[i].attempts = queue[i].attempts
<1>1. ASSUME NEW i \in Item
      PROVE  Reaped[i] \in Q!JobDoc /\ Reaped[i].attempts = queue[i].attempts
  <2>1. queue[i] \in Q!JobDoc BY DEF Rows
  <2>2. Reaped[i] \in {queue[i], Q!DeadLettered(queue[i]), Q!Requeued(queue[i])} BY DEF Reaped
  <2> QED BY <2>1, <2>2, DocKept
<1>2. Reaped = [i \in Item |-> Reaped[i]] BY DEF Reaped
<1> QED BY <1>1, <1>2 DEF Rows

\* A row is written by an operation that counts no attempt.
LEMMA RowWritten ==
  ASSUME BrokenInv, conf' = conf, NEW i \in Item, NEW d, d \in Q!JobDoc,
         d.attempts = queue[i].attempts \/ d.attempts = 0,
         queue' = [queue EXCEPT ![i] = d]
  PROVE  queue' \in Rows /\ BrokenClaimNothing'
<1>1. queue' \in Rows BY DEF BrokenInv, Rows
<1>2. \A k \in Item : queue'[k] = IF k = i THEN d ELSE queue[k] BY DEF BrokenInv, Rows
<1>3. BrokenClaimNothing' BY <1>2 DEF BrokenInv, BrokenClaimNothing
<1> QED BY <1>1, <1>3

LEMMA RowsSame ==
  ASSUME BrokenInv, conf' = conf, queue' = queue
  PROVE  queue' \in Rows /\ BrokenClaimNothing'
BY DEF BrokenInv, BrokenClaimNothing

LEMMA RowsReaped ==
  ASSUME BrokenInv, conf' = conf, queue' = Reaped
  PROVE  queue' \in Rows /\ BrokenClaimNothing'
<1>1. queue \in Rows BY DEF BrokenInv
<1>2. queue' \in Rows /\ \A i \in Item : queue'[i].attempts = queue[i].attempts
  BY <1>1, ReapedKeeps
<1>3. BrokenClaimNothing' BY <1>2 DEF BrokenInv, BrokenClaimNothing
<1> QED BY <1>2, <1>3

\* A child claims items of its own group, which is not broken.
LEMMA RowsClaimed ==
  ASSUME BrokenInv, NEW c \in Child, NEW i \in Item, ChildClaims(c, i)
  PROVE  queue' \in Rows /\ BrokenClaimNothing'
<1>1. child[c] \in StartKid
  <2>1. child[c] \in Kid BY DEF BrokenInv, FenceInv, KidsOK
  <2> QED BY <2>1, KidFacts DEF ChildClaims
<1>2. Holder(c) \in WorkerId BY <1>1, DispatchAssumption DEF Holder, WorkerId, StartKid
<1>3. queue \in Rows /\ conf' = conf BY DEF BrokenInv, ChildClaims
<1>4. Reaped \in Rows /\ \A k \in Item : Reaped[k].attempts = queue[k].attempts
  BY <1>3, ReapedKeeps
<1>5. PICK d : d = Q!Claimed(Reaped[i], Holder(c)) OBVIOUS
<1>6. d \in Q!JobDoc BY <1>2, <1>4, <1>5, DocClaimed DEF Rows
<1>7. queue' = [Reaped EXCEPT ![i] = d] BY <1>5 DEF ChildClaims
<1>8. queue' \in Rows /\ \A k \in Item \ {i} : queue'[k] = Reaped[k]
  BY <1>4, <1>6, <1>7 DEF Rows
<1>9. GroupOfItem(i) \notin conf.broken
  <2>1. GroupOfItem(i) = child[c].g BY DEF ChildClaims, Claimable
  <2>2. child[c].g \notin conf.broken BY DEF BrokenInv, NoBrokenKid, ChildClaims
  <2> QED BY <2>1, <2>2
<1>10. BrokenClaimNothing' BY <1>3, <1>4, <1>8, <1>9 DEF BrokenInv, BrokenClaimNothing
<1> QED BY <1>8, <1>10

LEMMA RowsStep ==
  ASSUME BrokenInv, [Next]_vars
  PROVE  conf' = conf /\ queue' \in Rows /\ BrokenClaimNothing'
<1>0. conf' = conf
  BY DEF Next, Enqueue, Approve, Tick, TickEnds, Serve, StartFails, Refuse, DispatchTo,
         Unreachable, ChildStep, ChildClaims, ChildFindsNothing, HandlerReturns,
         HandlerRefused, Report, CapabilityExpires, Fail, HandlerRaises, ChildDies,
         TemplateDies, HostDies, ClaimerDies, LeaseExpires, BecomesDue, vars
<1>1. ASSUME NEW t \in Turn, Enqueue(t) PROVE queue' \in Rows /\ BrokenClaimNothing'
  <2>1. TurnItem(t) \in Item BY DEF TurnItem, Item
  <2>2. queue' = [queue EXCEPT ![TurnItem(t)] = Q!Enqueued("due")] BY <1>1 DEF Enqueue
  <2> QED BY <1>0, <2>1, <2>2, DocNew, RowWritten
<1>2. ASSUME NEW t \in Pausing, Approve(t) PROVE queue' \in Rows /\ BrokenClaimNothing'
  <2>1. <<"resume", t>> \in Item BY DEF Item
  <2>2. queue' = [queue EXCEPT ![<<"resume", t>>] = Q!Enqueued("due")] BY <1>2 DEF Approve
  <2> QED BY <1>0, <2>1, <2>2, DocNew, RowWritten
<1>3. CASE \/ Tick \/ TickEnds \/ Serve \/ Fail \/ UNCHANGED vars
           \/ \E c \in Child : HandlerReturns(c) \/ HandlerRefused(c) \/ CapabilityExpires(c)
  <2>1. queue' = queue
    BY <1>3 DEF Tick, TickEnds, Serve, StartFails, Refuse, DispatchTo, Unreachable, Fail,
         HandlerRaises, ChildDies, TemplateDies, HostDies, ClaimerDies, HandlerReturns,
         HandlerRefused, CapabilityExpires, rows, vars
  <2> QED BY <1>0, <2>1, RowsSame
<1>4. ASSUME NEW c \in Child, NEW i \in Item, ChildClaims(c, i)
      PROVE  queue' \in Rows /\ BrokenClaimNothing'
  BY <1>4, RowsClaimed
<1>5. ASSUME NEW c \in Child, ChildFindsNothing(c)
      PROVE  queue' \in Rows /\ BrokenClaimNothing'
  <2>1. queue' = Reaped BY <1>5 DEF ChildFindsNothing
  <2> QED BY <1>0, <2>1, RowsReaped
<1>6. ASSUME NEW c \in Child, Report(c)
      PROVE  queue' \in Rows /\ BrokenClaimNothing'
  <2>1. child[c] \in WorkKid
    <3>1. child[c] \in Kid BY DEF BrokenInv, FenceInv, KidsOK
    <3> QED BY <1>6, <3>1, KidFacts DEF Report
  <2>2. PICK i : i = child[c].item OBVIOUS
  <2>3. i \in Item /\ queue[i] \in Q!JobDoc BY <2>1, <2>2 DEF WorkKid, BrokenInv, Rows
  <2>4. \/ queue' = [queue EXCEPT ![i] = Q!Completed(queue[i])]
        \/ queue' = [queue EXCEPT ![i] = Q!Failed(i, queue[i])]
        \/ queue' = queue
    BY <1>6, <2>2 DEF Report
  <2> QED BY <1>0, <2>3, <2>4, DocKept, RowWritten, RowsSame
<1>7. ASSUME NEW i \in Item, LeaseExpires(i) \/ BecomesDue(i)
      PROVE  queue' \in Rows /\ BrokenClaimNothing'
  <2>1. queue[i] \in Q!JobDoc BY DEF BrokenInv, Rows
  <2>2. \/ queue' = [queue EXCEPT ![i] = [queue[i] EXCEPT !.lease = "expired"]]
        \/ queue' = [queue EXCEPT ![i] = [queue[i] EXCEPT !.runAt = "due"]]
    BY <1>7 DEF LeaseExpires, BecomesDue
  <2> QED BY <1>0, <2>1, <2>2, DocKept, RowWritten
<1> QED BY <1>0, <1>1, <1>2, <1>3, <1>4, <1>5, <1>6, <1>7 DEF Next, ChildStep

\* After any dispatch of the tick there are no more candidates than before.
LEMMA AfterShrinks ==
  ASSUME NEW outcome, NEW g
  PROVE  After(outcome, g).cand \subseteq clm.cand
BY DEF After

LEMMA CandAfter ==
  ASSUME BrokenInv, conf' = conf, clm.pc \in {"tick", "wait"}, NEW outcome, NEW g,
         clm' = After(outcome, g)
  PROVE  CandOK'
BY AfterShrinks DEF BrokenInv, CandOK

LEMMA CandExits ==
  ASSUME BrokenInv, conf' = conf, NEW c \in Child, NEW outcome, Exits(c, outcome)
  PROVE  CandOK'
<1>1. CASE Waits(c)
  <2>1. clm' = After(outcome, clm.g) BY <1>1 DEF Exits, ComesBack
  <2> QED BY <1>1, <2>1, CandAfter DEF Waits
<1>2. CASE ~Waits(c)
  BY <1>2 DEF Exits, BrokenInv, CandOK
<1> QED BY <1>1, <1>2

LEMMA CandStep ==
  ASSUME BrokenInv, [Next]_vars, conf' = conf
  PROVE  CandOK'
<1>1. CASE Tick BY <1>1 DEF Tick, CandOK
<1>2. CASE TickEnds BY <1>2 DEF TickEnds, Resting, CandOK
<1>3. ASSUME NEW g \in Group, StartFails(g) \/ Refuse(g) PROVE CandOK'
  BY <1>3, CandAfter DEF StartFails, Refuse
<1>4. ASSUME NEW g \in Group, NEW n \in DispatchId, DispatchTo(g, n) PROVE CandOK'
  <2>1. clm.pc = "tick" /\ clm'.cand = clm.cand
    BY <1>4 DEF DispatchTo, Dispatchable
  <2> QED BY <2>1 DEF BrokenInv, CandOK
<1>5. ASSUME NEW g \in Group, NEW n \in DispatchId, Unreachable(g, n) PROVE CandOK'
  BY <1>5, CandAfter DEF Unreachable, Dispatchable
<1>6. ASSUME NEW c \in Child, \E outcome \in {"nothing", "ran", "error"} : Exits(c, outcome)
      PROVE  CandOK'
  BY <1>6, CandExits
<1>7. ASSUME NEW c \in Child, ChildFindsNothing(c) \/ Report(c) \/ ChildDies(c) PROVE CandOK'
  <2>1. \E outcome \in {"nothing", "ran", "error"} : Exits(c, outcome)
    BY <1>7 DEF ChildFindsNothing, Report, ChildDies
  <2> QED BY <1>6, <2>1
<1>8. ASSUME NEW g \in Group, TemplateDies(g) PROVE CandOK'
  <2>1. CASE clm.pc = "wait" /\ clm.g = g
    <3>1. clm' = After("error", clm.g) BY <1>8, <2>1 DEF TemplateDies, ComesBack
    <3> QED BY <2>1, <3>1, CandAfter
  <2>2. CASE ~(clm.pc = "wait" /\ clm.g = g)
    BY <1>8, <2>2 DEF TemplateDies, BrokenInv, CandOK
  <2> QED BY <2>1, <2>2
<1>9. CASE HostDies
  <2>1. CASE clm.pc = "wait"
    <3>1. clm' = After("error", clm.g) BY <1>9, <2>1 DEF HostDies, ComesBack
    <3> QED BY <2>1, <3>1, CandAfter
  <2>2. CASE clm.pc # "wait" BY <1>9, <2>2 DEF HostDies, BrokenInv, CandOK
  <2> QED BY <2>1, <2>2
<1>10. CASE ClaimerDies BY <1>10 DEF ClaimerDies, Resting, CandOK
<1>11. ASSUME NEW c \in Child, HandlerRefused(c) PROVE CandOK'
  <2>1. CASE child[c].item[1] = "resume"
    <3>1. clm' = clm BY <1>11, <2>1 DEF HandlerRefused
    <3> QED BY <3>1 DEF BrokenInv, CandOK
  <2>2. CASE child[c].item[1] # "resume"
    BY <1>6, <1>11, <2>2 DEF HandlerRefused
  <2> QED BY <2>1, <2>2
<1>12. CASE \/ \E t \in Turn : Enqueue(t)
            \/ \E t \in Pausing : Approve(t)
            \/ \E c \in Child : \/ \E i \in Item : ChildClaims(c, i)
                                \/ HandlerReturns(c) \/ HandlerRaises(c) \/ CapabilityExpires(c)
            \/ \E i \in Item : LeaseExpires(i) \/ BecomesDue(i)
            \/ UNCHANGED vars
  <2>1. clm' = clm
    BY <1>12 DEF Enqueue, Approve, ChildClaims, HandlerReturns, HandlerRaises,
         CapabilityExpires, LeaseExpires, BecomesDue, vars
  <2> QED BY <2>1 DEF BrokenInv, CandOK
<1> QED BY <1>1, <1>2, <1>3, <1>4, <1>5, <1>7, <1>8, <1>9, <1>10, <1>11, <1>12
        DEF Next, Serve, ChildStep, Fail

\* The children there were keep their groups.
LEMMA KidsKept ==
  ASSUME BrokenInv, conf' = conf,
         \A d \in Child : child'[d].pc # "none" => child[d].pc # "none" /\ child'[d].g = child[d].g
  PROVE  NoBrokenKid'
BY DEF BrokenInv, NoBrokenKid

LEMMA KidsSame ==
  ASSUME BrokenInv, conf' = conf, child' = child
  PROVE  NoBrokenKid'
BY KidsKept

LEMMA KidsExit ==
  ASSUME BrokenInv, conf' = conf, NEW c \in Child, NEW outcome, Exits(c, outcome)
  PROVE  NoBrokenKid'
<1>1. FenceInv BY DEF BrokenInv
<1>2. /\ child'[c].pc = "none"
      /\ \A d \in Child \ {c} : child'[d].pc = child[d].pc
      /\ \A d \in Child \ {c} : child[d].pc # "none" => child'[d].g = child[d].g
  BY <1>1, ExitsOK
<1> QED BY <1>2, KidsKept

LEMMA KidsReleased ==
  ASSUME BrokenInv, conf' = conf, NEW n, Released(n, child)
  PROVE  NoBrokenKid'
<1>1. /\ \A c \in Child : child'[c].pc = child[c].pc
      /\ \A c \in Child : child[c].pc # "none" => child'[c].g = child[c].g
  BY ReleasedOK DEF BrokenInv, FenceInv
<1> QED BY <1>1, KidsKept

LEMMA KidsWork ==
  ASSUME BrokenInv, conf' = conf, NEW c \in Child, child[c].pc = "work",
         NEW p \in {"done", "bad"}, child' = [child EXCEPT ![c].pc = p]
  PROVE  NoBrokenKid'
<1>1. child[c] \in WorkKid
  <2>1. child[c] \in Kid BY DEF BrokenInv, FenceInv, KidsOK
  <2> QED BY <2>1, KidFacts
<1>2. /\ child'[c] = [child[c] EXCEPT !.pc = p]
      /\ \A d \in Child \ {c} : child'[d] = child[d]
  BY DEF BrokenInv, FenceInv, KidsOK
<1>3. child'[c].g = child[c].g BY <1>1, <1>2 DEF WorkKid
<1> QED BY <1>2, <1>3, KidsKept

\* No dispatch goes to a broken group: at version scope the only candidate is Home.
LEMMA KidsDispatched ==
  ASSUME BrokenInv, conf' = conf, NEW g \in Group, NEW n \in DispatchId, DispatchTo(g, n)
  PROVE  NoBrokenKid'
<1>1. g \notin conf.broken
  <2>1. g \in clm.cand /\ clm.pc = "tick" /\ ~(conf.wide /\ g \in conf.broken)
    BY DEF DispatchTo, Dispatchable
  <2>2. Home \notin conf.broken BY DEF BrokenInv, ConfOK
  <2> QED BY <2>1, <2>2 DEF BrokenInv, CandOK
<1>2. NewChild \in Child BY DEF DispatchTo, NewChild, Free
<1>3. /\ child'[NewChild].g = g
      /\ \A d \in Child \ {NewChild} : child'[d] = child[d]
  <2>1. child \in [Child -> Kid] BY DEF BrokenInv, FenceInv, KidsOK
  <2> QED BY <1>2, <2>1 DEF DispatchTo
<1> QED BY <1>1, <1>3 DEF BrokenInv, NoBrokenKid

LEMMA KidsClaimed ==
  ASSUME BrokenInv, conf' = conf, NEW c \in Child, NEW i \in Item, ChildClaims(c, i)
  PROVE  NoBrokenKid'
<1> DEFINE old == Shared(child[c].id)
<1>1. child' = [old EXCEPT ![c] = ClaimedKid(c, i)] /\ child[c].pc = "start"
  BY DEF ChildClaims, ClaimedKid
<1>2. old = [d \in Child |-> old[d]] BY DEF Shared
<1>3. \A d \in Child : /\ old[d].pc = child[d].pc
                       /\ child[d].pc # "none" => old[d].g = child[d].g
  BY SharedOK DEF BrokenInv
<1> HIDE DEF old
<1>4. child'[c] = ClaimedKid(c, i) /\ \A d \in Child \ {c} : child'[d] = old[d]
  BY <1>1, <1>2
<1>5. child'[c].g = child[c].g BY <1>4 DEF ClaimedKid
<1> QED BY <1>1, <1>3, <1>4, <1>5, KidsKept

LEMMA KidsStep ==
  ASSUME BrokenInv, [Next]_vars, conf' = conf
  PROVE  NoBrokenKid'
<1>1. CASE \/ \E t \in Turn : Enqueue(t)
           \/ \E t \in Pausing : Approve(t)
           \/ Tick \/ TickEnds
           \/ \E g \in Group : StartFails(g) \/ Refuse(g)
           \/ \E i \in Item : LeaseExpires(i) \/ BecomesDue(i)
           \/ UNCHANGED vars
  <2>1. child' = child
    BY <1>1 DEF Enqueue, Approve, Tick, TickEnds, StartFails, Refuse, LeaseExpires,
         BecomesDue, vars
  <2> QED BY <2>1, KidsSame
<1>2. ASSUME NEW g \in Group, NEW n \in DispatchId, DispatchTo(g, n) \/ Unreachable(g, n)
      PROVE  NoBrokenKid'
  <2>1. CASE DispatchTo(g, n) BY <2>1, KidsDispatched
  <2>2. CASE Unreachable(g, n) BY <2>2, KidsReleased DEF Unreachable
  <2> QED BY <1>2, <2>1, <2>2
<1>3. ASSUME NEW c \in Child, NEW i \in Item, ChildClaims(c, i) PROVE NoBrokenKid'
  BY <1>3, KidsClaimed
<1>4. ASSUME NEW c \in Child, ChildFindsNothing(c) \/ Report(c) \/ ChildDies(c)
      PROVE  NoBrokenKid'
  <2>1. \E outcome \in {"nothing", "ran", "error"} : Exits(c, outcome)
    BY <1>4 DEF ChildFindsNothing, Report, ChildDies
  <2> QED BY <2>1, KidsExit
<1>5. ASSUME NEW c \in Child, HandlerReturns(c) \/ HandlerRaises(c) PROVE NoBrokenKid'
  BY <1>5, KidsWork DEF HandlerReturns, HandlerRaises
<1>6. ASSUME NEW c \in Child, HandlerRefused(c) PROVE NoBrokenKid'
  <2>1. CASE child[c].item[1] = "resume"
    BY <1>6, <2>1, KidsWork DEF HandlerRefused
  <2>2. CASE child[c].item[1] # "resume"
    BY <1>6, <2>2, KidsExit DEF HandlerRefused
  <2> QED BY <2>1, <2>2
<1>7. ASSUME NEW c \in Child, CapabilityExpires(c) PROVE NoBrokenKid'
  BY <1>7, KidsKept DEF CapabilityExpires, BrokenInv, FenceInv, KidsOK, NoOne
<1>8. ASSUME NEW g \in Group, TemplateDies(g) PROVE NoBrokenKid'
  <2>1. CASE clm.pc = "wait" /\ clm.g = g
    BY <1>8, <2>1, KidsReleased DEF TemplateDies, ComesBack
  <2>2. CASE ~(clm.pc = "wait" /\ clm.g = g)
    BY <1>8, <2>2, KidsSame DEF TemplateDies
  <2> QED BY <2>1, <2>2
<1>9. CASE HostDies \/ ClaimerDies
  <2>1. \A c \in Child : child'[c].pc = "none"
    <3>1. PICK kids : kids = [c \in Child |-> NoOne] OBVIOUS
    <3>2. KidsOK(kids, owned) /\ \A c \in Child : kids[c].pc = "none"
      BY <3>1, NobodyLeft DEF NoOne
    <3>3. child' = kids \/ Released(clm.id, kids)
      BY <1>9, <3>1 DEF HostDies, ClaimerDies, ComesBack
    <3> QED BY <3>2, <3>3, ReleasedOK DEF BrokenInv, FenceInv
  <2> QED BY <2>1 DEF NoBrokenKid
<1> QED BY <1>1, <1>2, <1>3, <1>4, <1>5, <1>6, <1>7, <1>8, <1>9
        DEF Next, Serve, ChildStep, Fail

\* "Nothing is claimed for this agent until it can be served" (worker.py,
\* template_for): for any number of groups and children, and whatever dies, no
\* attempt of an incomplete bundle's items is spent.
THEOREM IncompleteBundlesClaimNothing == Spec => []BrokenClaimNothing
<1>1. Init => BrokenInv
  <2> SUFFICES ASSUME Init PROVE BrokenInv OBVIOUS
  <2>1. child = [c \in Child |-> NoOne] /\ owned = [n \in DispatchId |-> Nothing] BY DEF Init
  <2>2. KidsOK(child, owned) BY <2>1, NobodyLeft
  <2>3. FenceInv BY <2>1, <2>2 DEF FenceInv, OwnedOK, OwnedSet, Nothing
  <2>4. Q!AbsentDoc \in Q!JobDoc /\ Q!AbsentDoc.attempts = 0
    BY DEF Q!AbsentDoc, Q!Blank, Q!JobDoc, Q!Status
  <2>5. queue \in Rows /\ BrokenClaimNothing BY <2>4 DEF Init, Rows, BrokenClaimNothing
  <2>6. ConfOK BY DEF Init, ConfOK
  <2>7. CandOK BY DEF Init, CandOK, Resting
  <2>8. NoBrokenKid BY <2>1 DEF NoBrokenKid, NoOne
  <2> QED BY <2>3, <2>5, <2>6, <2>7, <2>8 DEF BrokenInv
<1>2. BrokenInv /\ [Next]_vars => BrokenInv'
  <2> SUFFICES ASSUME BrokenInv, [Next]_vars PROVE BrokenInv' OBVIOUS
  <2>1. conf' = conf /\ queue' \in Rows /\ BrokenClaimNothing' BY RowsStep
  <2>2. FenceInv' BY FenceStep DEF BrokenInv
  <2>3. CandOK' /\ NoBrokenKid' BY <2>1, CandStep, KidsStep
  <2>4. ConfOK' BY <2>1 DEF BrokenInv, ConfOK
  <2> QED BY <2>1, <2>2, <2>3, <2>4 DEF BrokenInv
<1>3. BrokenInv => BrokenClaimNothing BY DEF BrokenInv
<1> QED BY <1>1, <1>2, <1>3, PTL DEF Spec
-----------------------------------------------------------------------------
(* The pool.                                                               *)

PoolOK == /\ used \in Seq(Group) /\ Len(used) <= MaxEntries
          /\ IsFiniteSet(up) /\ Cardinality(up) <= MaxEntries
          /\ ~conf.hosted => up \subseteq Entries
PoolInv == ConfOK /\ PoolOK

LEMMA SequenceSet ==
  ASSUME NEW S, NEW seq \in Seq(S)
  PROVE  /\ Len(seq) \in Nat
         /\ \A x : x \in ToSet(seq) <=> \E k \in 1 .. Len(seq) : seq[k] = x
         /\ IsFiniteSet(ToSet(seq)) /\ Cardinality(ToSet(seq)) \in Nat
         /\ Cardinality(ToSet(seq)) <= Len(seq)
<1>1. Len(seq) \in Nat /\ seq \in [1 .. Len(seq) -> S] /\ DOMAIN seq = 1 .. Len(seq)
  BY LenProperties
<1>2. \A x : x \in ToSet(seq) <=> \E k \in 1 .. Len(seq) : seq[k] = x
  BY <1>1 DEF ToSet
<1> DEFINE n == Len(seq)
           f == [k \in 1 .. n |-> seq[k]]
<1>3. f \in Surjection(1 .. n, ToSet(seq))
  BY <1>1, <1>2 DEF Surjection
<1> HIDE DEF f
<1>4. IsFiniteSet(1 .. n) /\ Cardinality(1 .. n) = n
  <2>1. 1 \in Int /\ n \in Int BY <1>1
  <2>2. IsFiniteSet(1 .. n) /\ Cardinality(1 .. n) = IF 1 > n THEN 0 ELSE n - 1 + 1
    BY <2>1, FS_Interval
  <2> QED BY <1>1, <2>2
<1>5. IsFiniteSet(ToSet(seq)) /\ Cardinality(ToSet(seq)) <= n
  BY <1>3, <1>4, FS_Surjection
<1> QED BY <1>1, <1>2, <1>5, FS_CardinalityType

\* An entry moves to the end, or joins there.
LEMMA TouchedPool ==
  ASSUME used \in Seq(Group), NEW g \in Group
  PROVE  /\ Touched(g) \in Seq(Group)
         /\ Len(Touched(g)) = IF g \in Entries THEN Len(used) ELSE Len(used) + 1
         /\ \A h : h \in ToSet(Touched(g)) <=> h = g \/ h \in Entries
<1>1. Len(used) \in Nat /\ \A h : h \in Entries <=> \E k \in 1 .. Len(used) : used[k] = h
  BY SequenceSet DEF Entries
<1> DEFINE rest == IF g \in Entries THEN RemoveAt(used, Position(g)) ELSE used
<1>2. /\ rest \in Seq(Group)
      /\ Len(rest) = IF g \in Entries THEN Len(used) - 1 ELSE Len(used)
      /\ \A h : h \in ToSet(rest) => h \in Entries
      /\ \A h : h \in Entries => h = g \/ h \in ToSet(rest)
  <2>1. CASE g \notin Entries
    BY <2>1 DEF Entries
  <2>2. CASE g \in Entries
    <3> DEFINE k == Position(g)
               left == SubSeq(used, 1, k - 1)
               right == SubSeq(used, k + 1, Len(used))
    <3>1. k \in 1 .. Len(used) /\ used[k] = g
      BY <1>1, <2>2 DEF Position
    <3> HIDE DEF k
    <3>2. /\ left \in Seq(Group) /\ Len(left) = k - 1
          /\ \A i \in 1 .. (k - 1) : left[i] = used[i]
      <4>1. \A i \in 1 .. (k - 1) : used[i] \in Group
        BY <1>1, <3>1, ElementOfSeq
      <4>2. 1 \in Int /\ k - 1 \in Int /\ k - 1 - 1 + 1 = k - 1
        BY <3>1, <1>1
      <4>3. /\ left \in Seq(Group)
            /\ Len(left) = IF 1 <= k - 1 THEN k - 1 - 1 + 1 ELSE 0
            /\ \A i \in 1 .. (k - 1 - 1 + 1) : left[i] = used[1 + i - 1]
        BY <4>1, <4>2, SubSeqProperties
      <4> QED BY <1>1, <3>1, <4>2, <4>3
    <3>3. /\ right \in Seq(Group) /\ Len(right) = Len(used) - k
          /\ \A i \in 1 .. (Len(used) - k) : right[i] = used[k + i]
      <4>1. \A i \in (k + 1) .. Len(used) : used[i] \in Group
        BY <1>1, <3>1, ElementOfSeq
      <4>2. k + 1 \in Int /\ Len(used) \in Int
        BY <3>1, <1>1
      <4>3. /\ right \in Seq(Group)
            /\ Len(right) = IF k + 1 <= Len(used) THEN Len(used) - (k + 1) + 1 ELSE 0
            /\ \A i \in 1 .. (Len(used) - (k + 1) + 1) : right[i] = used[(k + 1) + i - 1]
        BY <4>1, <4>2, SubSeqProperties
      <4> QED BY <1>1, <3>1, <4>3
    <3>4. rest = left \o right
      BY <2>2 DEF RemoveAt, k
    <3> HIDE DEF left, right, rest
    <3>5. /\ rest \in Seq(Group) /\ Len(rest) = Len(left) + Len(right)
          /\ \A i \in 1 .. Len(left) + Len(right) :
               rest[i] = IF i <= Len(left) THEN left[i] ELSE right[i - Len(left)]
      BY <3>2, <3>3, <3>4, ConcatProperties
    <3>6. Len(rest) = Len(used) - 1 /\ Len(rest) \in Nat
      BY <1>1, <3>1, <3>2, <3>3, <3>5
    <3>7. \A h : h \in ToSet(rest) <=> \E i \in 1 .. Len(rest) : rest[i] = h
      BY <3>5, SequenceSet
    <3>8. \A i \in 1 .. Len(rest) : rest[i] = IF i <= k - 1 THEN used[i] ELSE used[i + 1]
      <4> SUFFICES ASSUME NEW i \in 1 .. Len(rest)
                   PROVE  rest[i] = IF i <= k - 1 THEN used[i] ELSE used[i + 1]
        OBVIOUS
      <4>1. CASE i <= k - 1
        BY <1>1, <3>1, <3>2, <3>3, <3>5, <3>6, <4>1
      <4>2. CASE ~(i <= k - 1)
        <5>1. i - Len(left) \in 1 .. (Len(used) - k) /\ k + (i - Len(left)) = i + 1
          BY <1>1, <3>1, <3>2, <3>6, <4>2
        <5> QED BY <1>1, <3>1, <3>2, <3>3, <3>5, <3>6, <4>2, <5>1
      <4> QED BY <4>1, <4>2
    <3>9. \A h : h \in ToSet(rest) => h \in Entries
      <4> SUFFICES ASSUME NEW i \in 1 .. Len(rest) PROVE rest[i] \in Entries
        BY <3>7
      <4>1. i \in 1 .. Len(used) /\ i + 1 \in 1 .. Len(used)
        BY <1>1, <3>6
      <4> QED BY <1>1, <3>8, <4>1
    <3>10. \A h : h \in Entries => h = g \/ h \in ToSet(rest)
      <4> SUFFICES ASSUME NEW i \in 1 .. Len(used), used[i] # g PROVE used[i] \in ToSet(rest)
        BY <1>1
      <4>1. CASE i < k
        <5>1. i \in 1 .. Len(rest) /\ i <= k - 1 BY <1>1, <3>1, <3>6, <4>1
        <5> QED BY <3>7, <3>8, <5>1
      <4>2. CASE i > k
        <5>1. i - 1 \in 1 .. Len(rest) /\ ~(i - 1 <= k - 1) /\ (i - 1) + 1 = i
          BY <1>1, <3>1, <3>6, <4>2
        <5> QED BY <3>7, <3>8, <5>1
      <4>3. i # k BY <3>1
      <4> QED BY <1>1, <3>1, <4>1, <4>2, <4>3
    <3> QED BY <2>2, <3>5, <3>6, <3>9, <3>10
  <2> QED BY <2>1, <2>2
<1>3. Touched(g) = Append(rest, g)
  BY DEF Touched
<1> HIDE DEF rest
<1>4. /\ Touched(g) \in Seq(Group) /\ Len(Touched(g)) = Len(rest) + 1
      /\ \A i \in 1 .. Len(rest) : Touched(g)[i] = rest[i]
      /\ Touched(g)[Len(rest) + 1] = g
  BY <1>2, <1>3, AppendProperties
<1>5. Len(rest) \in Nat /\ \A h : h \in ToSet(rest) <=> \E i \in 1 .. Len(rest) : rest[i] = h
  BY <1>2, SequenceSet
<1>6. \A h : h \in ToSet(Touched(g)) <=> \E i \in 1 .. Len(rest) + 1 : Touched(g)[i] = h
  BY <1>4, SequenceSet
<1>7. \A h : h \in ToSet(Touched(g)) <=> h = g \/ h \in ToSet(rest)
  <2>1. ASSUME NEW h, h \in ToSet(Touched(g)) PROVE h = g \/ h \in ToSet(rest)
    <3>1. PICK i \in 1 .. Len(rest) + 1 : Touched(g)[i] = h BY <1>6, <2>1
    <3>2. CASE i = Len(rest) + 1 BY <1>4, <3>1, <3>2
    <3>3. CASE i # Len(rest) + 1
      <4>1. i \in 1 .. Len(rest) BY <1>5, <3>1, <3>3
      <4> QED BY <1>4, <1>5, <3>1, <4>1
    <3> QED BY <3>2, <3>3
  <2>2. g \in ToSet(Touched(g))
    <3>1. Len(rest) + 1 \in 1 .. Len(rest) + 1 BY <1>5
    <3> QED BY <1>4, <1>6, <3>1
  <2>3. ASSUME NEW h, h \in ToSet(rest) PROVE h \in ToSet(Touched(g))
    <3>1. PICK i \in 1 .. Len(rest) : rest[i] = h BY <1>5, <2>3
    <3>2. i \in 1 .. Len(rest) + 1 BY <1>5, <3>1
    <3> QED BY <1>4, <1>6, <3>1, <3>2
  <2> QED BY <2>1, <2>2, <2>3
<1>8. \A h : h \in ToSet(Touched(g)) <=> h = g \/ h \in Entries
  BY <1>1, <1>2, <1>7
<1> QED BY <1>1, <1>2, <1>4, <1>8

\* What stays of a touched pool, and what is evicted for it.
LEMMA KeptPool ==
  ASSUME NEW seq \in Seq(Group), Len(seq) <= MaxEntries + 1
  PROVE  /\ Kept(seq) \in Seq(Group) /\ Len(Kept(seq)) <= MaxEntries
         /\ \A h : h \in ToSet(seq) => h \in ToSet(Kept(seq)) \/ h \in Evicted(seq)
         /\ Len(seq) <= MaxEntries => Kept(seq) = seq
<1>1. Len(seq) \in Nat /\ MaxEntries \in Nat \ {0}
      /\ \A h : h \in ToSet(seq) <=> \E k \in 1 .. Len(seq) : seq[k] = h
  BY SequenceSet, DispatchAssumption
<1>2. CASE Len(seq) <= MaxEntries
  BY <1>1, <1>2 DEF Kept, Evicted
<1>3. CASE Len(seq) > MaxEntries
  <2>1. seq # <<>> /\ Len(seq) \in Nat \ {0}
    BY <1>1, <1>3, EmptySeq
  <2>2. /\ Tail(seq) \in Seq(Group) /\ Len(Tail(seq)) = Len(seq) - 1
        /\ \A i \in 1 .. Len(Tail(seq)) : Tail(seq)[i] = seq[i + 1]
    BY <2>1, HeadTailProperties
  <2>3. Head(seq) = seq[1] BY DEF Head
  <2>4. \A h : h \in ToSet(Tail(seq)) <=> \E k \in 1 .. Len(Tail(seq)) : Tail(seq)[k] = h
    BY <2>2, SequenceSet
  <2>5. ASSUME NEW k \in 1 .. Len(seq) PROVE seq[k] = Head(seq) \/ seq[k] \in ToSet(Tail(seq))
    <3>1. CASE k = 1 BY <2>3, <3>1
    <3>2. CASE k # 1
      <4>1. k - 1 \in 1 .. Len(Tail(seq)) /\ (k - 1) + 1 = k BY <1>1, <2>2, <3>2
      <4> QED BY <2>2, <2>4, <4>1
    <3> QED BY <3>1, <3>2
  <2>6. Kept(seq) = Tail(seq) /\ Evicted(seq) = {Head(seq)} /\ ~(Len(seq) <= MaxEntries)
    BY <1>1, <1>3 DEF Kept, Evicted
  <2>7. \A h : h \in ToSet(seq) => h \in ToSet(Kept(seq)) \/ h \in Evicted(seq)
    BY <1>1, <2>5, <2>6
  <2>8. Len(Kept(seq)) <= MaxEntries
    <3>1. Len(seq) - 1 <= MaxEntries BY <1>1
    <3> QED BY <2>2, <2>6, <3>1
  <2>9. Kept(seq) \in Seq(Group) BY <2>2, <2>6
  <2>10. Len(seq) <= MaxEntries => Kept(seq) = seq BY <2>6
  <2> QED BY <2>7, <2>8, <2>9, <2>10
<1> QED BY <1>1, <1>2, <1>3

LEMMA FewerUp ==
  ASSUME IsFiniteSet(up), Cardinality(up) <= MaxEntries, NEW less, less \subseteq up
  PROVE  IsFiniteSet(less) /\ Cardinality(less) <= MaxEntries
<1>1. Cardinality(up) \in Nat /\ IsFiniteSet(less) /\ Cardinality(less) \in Nat
      /\ Cardinality(less) <= Cardinality(up)
  BY FS_Subset, FS_CardinalityType
<1> QED BY <1>1, DispatchAssumption

\* A group is acquired: its interpreter found or started, another one stopped for
\* it, and in a host those that no entry speaks of.
LEMMA AcquiredPool ==
  ASSUME PoolInv, NEW g \in Group, Acquire(g), conf' = conf
  PROVE  PoolOK'
<1>1. /\ used \in Seq(Group) /\ Len(used) \in Nat /\ Len(used) <= MaxEntries
      /\ IsFiniteSet(up) /\ Cardinality(up) \in Nat /\ Cardinality(up) <= MaxEntries
      /\ ~conf.hosted => up \subseteq Entries
      /\ MaxEntries \in Nat \ {0} /\ conf.hosted \in BOOLEAN
  BY SequenceSet, FS_CardinalityType, DispatchAssumption DEF PoolInv, PoolOK, ConfOK
<1> DEFINE seq == Touched(g)
<1>2. /\ seq \in Seq(Group)
      /\ Len(seq) = IF g \in Entries THEN Len(used) ELSE Len(used) + 1
      /\ \A h : h \in ToSet(seq) <=> h = g \/ h \in Entries
  BY <1>1, TouchedPool
<1>3. used' = Kept(seq) BY DEF Acquire
<1> HIDE DEF seq
<1>4. /\ Kept(seq) \in Seq(Group) /\ Len(Kept(seq)) <= MaxEntries
      /\ \A h : h \in ToSet(seq) => h \in ToSet(Kept(seq)) \/ h \in Evicted(seq)
      /\ Len(seq) <= MaxEntries => Kept(seq) = seq
  BY <1>1, <1>2, KeptPool
<1>5. Entries' = ToSet(Kept(seq)) BY <1>3 DEF Entries
<1>6. CASE Alive(g)
  <2>1. g \in Entries /\ up' = up BY <1>6 DEF Alive, Acquire
  <2>2. \A h : h \in Entries' <=> h = g \/ h \in Entries
    BY <1>1, <1>2, <1>4, <1>5, <2>1
  <2> QED BY <1>1, <1>3, <1>4, <2>1, <2>2 DEF PoolOK
<1>7. CASE ~Alive(g)
  <2>1. up' = (up \cup {g}) \ (Evicted(seq) \cup Leftover(g))
    BY <1>7 DEF Acquire, Started, Stopped, seq
  <2>2. ASSUME up' \subseteq Entries'
        PROVE  IsFiniteSet(up') /\ Cardinality(up') <= MaxEntries
    <3>1. /\ IsFiniteSet(ToSet(Kept(seq))) /\ Cardinality(ToSet(Kept(seq))) \in Nat
          /\ Cardinality(ToSet(Kept(seq))) <= Len(Kept(seq)) /\ Len(Kept(seq)) \in Nat
      BY <1>4, SequenceSet
    <3>2. /\ IsFiniteSet(up') /\ Cardinality(up') \in Nat
          /\ Cardinality(up') <= Cardinality(ToSet(Kept(seq)))
      BY <1>5, <2>2, <3>1, FS_Subset, FS_CardinalityType
    <3> QED BY <1>1, <1>4, <3>1, <3>2
  <2>3. CASE ~conf.hosted
    <3>1. up' \subseteq Entries'
      BY <1>1, <1>2, <1>4, <1>5, <2>1, <2>3
    <3> QED BY <1>3, <1>4, <2>2, <3>1 DEF PoolOK
  <2>4. CASE conf.hosted /\ Cardinality(up \cup {g}) > MaxEntries
    <3>1. Leftover(g) = up \ (Entries \cup {g}) BY <2>4 DEF Leftover
    <3>2. up' \subseteq Entries'
      BY <1>2, <1>4, <1>5, <2>1, <3>1
    <3> QED BY <1>3, <1>4, <2>2, <2>4, <3>2 DEF PoolOK
  <2>5. CASE conf.hosted /\ ~(Cardinality(up \cup {g}) > MaxEntries)
    <3>1. IsFiniteSet(up \cup {g})
      BY <1>1, FS_AddElement
    <3>2. /\ IsFiniteSet(up') /\ Cardinality(up') \in Nat
          /\ Cardinality(up') <= Cardinality(up \cup {g}) /\ Cardinality(up \cup {g}) \in Nat
      BY <2>1, <3>1, FS_Subset, FS_CardinalityType
    <3>3. Cardinality(up') <= MaxEntries
      BY <1>1, <2>5, <3>2
    <3> QED BY <1>3, <1>4, <2>5, <3>2, <3>3 DEF PoolOK
  <2> QED BY <1>1, <2>3, <2>4, <2>5
<1> QED BY <1>6, <1>7

LEMMA SamePool ==
  ASSUME PoolInv, conf' = conf, used' = used, up' = up
  PROVE  PoolOK'
BY DEF PoolInv, PoolOK, Entries

LEMMA PoolStep ==
  ASSUME PoolInv, Next
  PROVE  PoolOK' /\ conf' = conf
<1>1. ASSUME NEW t \in Turn, Enqueue(t) PROVE PoolOK' /\ conf' = conf
  BY <1>1, SamePool DEF Enqueue, pool
<1>2. ASSUME NEW t \in Pausing, Approve(t) PROVE PoolOK' /\ conf' = conf
  BY <1>2, SamePool DEF Approve, pool
<1>3. CASE Tick \/ TickEnds
  BY <1>3, SamePool DEF Tick, TickEnds, pool
<1>4. ASSUME NEW g \in Group, StartFails(g) PROVE PoolOK' /\ conf' = conf
  BY <1>4, SamePool DEF StartFails, pool
<1>5. ASSUME NEW g \in Group, Refuse(g) PROVE PoolOK' /\ conf' = conf
  BY <1>5, AcquiredPool DEF Refuse
<1>6. ASSUME NEW g \in Group, NEW n \in DispatchId, DispatchTo(g, n) PROVE PoolOK' /\ conf' = conf
  BY <1>6, AcquiredPool DEF DispatchTo
<1>7. ASSUME NEW g \in Group, NEW n \in DispatchId, Unreachable(g, n) PROVE PoolOK' /\ conf' = conf
  <2>1. /\ used' = Touched(g) /\ up' = up /\ conf' = conf /\ g \in Entries /\ conf.hosted
    BY <1>7 DEF Unreachable, Reachable, Alive
  <2>2. Touched(g) \in Seq(Group) /\ Len(Touched(g)) = Len(used)
    BY <2>1, TouchedPool DEF PoolInv, PoolOK
  <2> QED BY <2>1, <2>2 DEF PoolInv, PoolOK
<1>8. ASSUME NEW c \in Child, ChildStep(c) \/ CapabilityExpires(c) PROVE PoolOK' /\ conf' = conf
  <2>1. UNCHANGED <<conf, pool>>
    BY <1>8 DEF ChildStep, CapabilityExpires, ChildClaims, ChildFindsNothing, HandlerReturns,
                HandlerRefused, Report
  <2> QED BY <2>1, SamePool DEF pool
<1>9. ASSUME NEW c \in Child, HandlerRaises(c) \/ ChildDies(c) PROVE PoolOK' /\ conf' = conf
  BY <1>9, SamePool DEF HandlerRaises, ChildDies, pool
<1>10. ASSUME NEW g \in Group, TemplateDies(g) PROVE PoolOK' /\ conf' = conf
  <2>1. up' \subseteq up /\ used' = used /\ conf' = conf
    BY <1>10 DEF TemplateDies
  <2> QED BY <2>1, FewerUp DEF PoolInv, PoolOK, Entries
<1>11. CASE HostDies
  <2>1. up' = {} /\ used' = used /\ conf' = conf
    BY <1>11 DEF HostDies
  <2> QED BY <2>1, FewerUp DEF PoolInv, PoolOK, Entries
<1>12. CASE ClaimerDies
  <2>1. used' = <<>> /\ up' = (IF conf.hosted THEN up ELSE {}) /\ conf' = conf
    BY <1>12 DEF ClaimerDies
  <2>2. <<>> \in Seq(Group) /\ Len(<<>>) = 0 /\ 0 <= MaxEntries
    BY EmptySeq, DispatchAssumption
  <2>3. IsFiniteSet(up') /\ Cardinality(up') <= MaxEntries
    BY <2>1, FewerUp DEF PoolInv, PoolOK
  <2> QED BY <2>1, <2>2, <2>3 DEF PoolOK
<1>13. ASSUME NEW i \in Item, LeaseExpires(i) \/ BecomesDue(i) PROVE PoolOK' /\ conf' = conf
  BY <1>13, SamePool DEF LeaseExpires, BecomesDue, pool
<1> QED BY <1>1, <1>2, <1>3, <1>4, <1>5, <1>6, <1>7, <1>8, <1>9, <1>10, <1>11, <1>12, <1>13
        DEF Next, Serve, Fail

\* A claimer keeps no more interpreters than its pool has entries, and a host no
\* more than that bound (pool.py, WarmPool): for any number of groups, and whatever
\* is evicted, dies, is taken over or left behind.
THEOREM PoolStaysBounded == Spec => []PoolIsBounded
<1>1. Init => PoolInv
  <2> SUFFICES ASSUME Init PROVE PoolInv OBVIOUS
  <2>1. <<>> \in Seq(Group) /\ Len(<<>>) = 0 /\ 0 <= MaxEntries
    BY EmptySeq, DispatchAssumption
  <2>2. IsFiniteSet({}) /\ Cardinality({}) = 0 BY FS_EmptySet
  <2> QED BY <2>1, <2>2 DEF Init, PoolInv, PoolOK, ConfOK
<1>2. PoolInv /\ [Next]_vars => PoolInv'
  <2> SUFFICES ASSUME PoolInv, [Next]_vars PROVE PoolInv' OBVIOUS
  <2>1. PoolOK' /\ conf' = conf
    BY PoolStep, SamePool DEF vars
  <2> QED BY <2>1 DEF PoolInv, ConfOK
<1>3. PoolInv => PoolIsBounded BY DEF PoolInv, PoolOK, PoolIsBounded
<1> QED BY <1>1, <1>2, <1>3, PTL DEF Spec
=============================================================================
