-------------------------- MODULE ModuleLink_proofs ------------------------
(***************************************************************************)
(* Reference counts, slots, services and handles of ModuleLink agree, for  *)
(* every size of the tables, every depth of re-entry and every set of      *)
(* services.                                                               *)
(***************************************************************************)
EXTENDS ModuleLink, FiniteSetTheorems, TLAPS

(* The five parts hold each other up: a count says how many handles stand  *)
(* in the way of a teardown, a build in progress is a slot without any.    *)
IInv ==
    /\ TypeOK
    /\ RefcountExact
    /\ HandlesMeanInstance
    /\ SlotsAccounted
    /\ ServicesHeld

-----------------------------------------------------------------------------
(* What a step of the handle table does to the references to the slots.    *)

LEMMA HandleFinite == IsFiniteSet(Handle)
BY HandleAssumption, FS_Interval DEF Handle

LEMMA RefsFinite ==
    ASSUME NEW s
    PROVE  /\ IsFiniteSet(Refs(s))
           /\ Cardinality(Refs(s)) \in Nat
           /\ Cardinality(Refs(s)) = 0 <=> Refs(s) = {}
<1>1. Refs(s) \subseteq Handle
  BY DEF Refs
<1>2. IsFiniteSet(Refs(s))
  BY <1>1, HandleFinite, FS_Subset
<1> QED BY <1>2, FS_CardinalityType, FS_EmptySet

(* An allocation takes a free entry and leaves the others alone.           *)
LEMMA AllocFree ==
    ASSUME HandleTypeOK, NEW t \in HandleType, NEW h \in Handle,
           HandleAlloc(h, t)
    PROVE  htype[h] = "free" /\ HandleTypeOK'
<1>1. htype[h] = "free"
  BY DEF HandleAlloc, Found, FreeIn, Lowest
<1>2. htype' \in [Handle -> HandleType \cup {"free"}]
  BY DEF HandleAlloc, HandleTypeOK
<1>3. next' \in First .. Limit
  BY HandleAssumption DEF HandleAlloc, Handle
<1> QED BY <1>1, <1>2, <1>3 DEF HandleTypeOK

(* A new handle for slot s is one more reference to s and to no other.     *)
LEMMA GiveHandleRefs ==
    ASSUME HandlesTypeOK, SlotsTypeOK, NEW s \in Slot, GiveHandle(s)
    PROVE  /\ HandlesTypeOK'
           /\ Refs(s)' # {}
           /\ Cardinality(Refs(s)') = Cardinality(Refs(s)) + 1
           /\ \A t \in Slot \ {s} : Refs(t)' = Refs(t)
           /\ \A k \in Handle : htype'[k] = "module" =>
                \/ htype[k] = "module" /\ hslot'[k] = hslot[k]
                                       /\ hinst'[k] = hinst[k]
                \/ hslot'[k] = s /\ hinst'[k] = inst[s]
<1>1. PICK h \in Handle :
        /\ HandleAlloc(h, "module")
        /\ hslot' = [hslot EXCEPT ![h] = s]
        /\ hinst' = [hinst EXCEPT ![h] = inst[s]]
  BY DEF GiveHandle
<1>2. htype[h] = "free" /\ HandleTypeOK'
  BY <1>1, AllocFree, ModuleAssumption DEF HandlesTypeOK
<1>3. HandlesTypeOK'
  BY <1>1, <1>2 DEF HandlesTypeOK, SlotsTypeOK
<1>4. htype' = [htype EXCEPT ![h] = "module"]
  BY <1>1 DEF HandleAlloc
<1>5. Refs(s)' = Refs(s) \cup {h} /\ h \notin Refs(s)
  BY <1>1, <1>2, <1>4 DEF HandlesTypeOK, HandleTypeOK, Refs
<1>6. \A t \in Slot \ {s} : Refs(t)' = Refs(t)
  BY <1>1, <1>2, <1>4 DEF HandlesTypeOK, HandleTypeOK, Refs
<1>7. Cardinality(Refs(s)') = Cardinality(Refs(s)) + 1
  BY <1>5, RefsFinite, FS_AddElement
<1>8. \A k \in Handle : htype'[k] = "module" =>
                \/ htype[k] = "module" /\ hslot'[k] = hslot[k]
                                       /\ hinst'[k] = hinst[k]
                \/ hslot'[k] = s /\ hinst'[k] = inst[s]
  BY <1>1, <1>4 DEF HandlesTypeOK, HandleTypeOK
<1> QED BY <1>3, <1>5, <1>6, <1>7, <1>8

(* The release of a handle is one reference less to its slot.              *)
LEMMA ReleaseRefs ==
    ASSUME HandlesTypeOK, NEW s \in Slot,
           NEW h \in Handle, htype[h] = "module", hslot[h] = s,
           HandleFree(h),
           hslot' = [hslot EXCEPT ![h] = NoSlot],
           hinst' = [hinst EXCEPT ![h] = 0]
    PROVE  /\ HandlesTypeOK'
           /\ Cardinality(Refs(s)') = Cardinality(Refs(s)) - 1
           /\ Cardinality(Refs(s)') \in Nat
           /\ \A t \in Slot \ {s} : Refs(t)' = Refs(t)
           /\ \A k \in Handle : htype'[k] = "module" =>
                /\ htype[k] = "module"
                /\ hslot'[k] = hslot[k]
                /\ hinst'[k] = hinst[k]
                /\ k # h
<1>1. htype' = [htype EXCEPT ![h] = "free"] /\ next' = next
  BY DEF HandleFree
<1>2. HandlesTypeOK'
  BY <1>1, ModuleAssumption DEF HandlesTypeOK, HandleTypeOK
<1>3. Refs(s)' = Refs(s) \ {h} /\ h \in Refs(s)
  BY <1>1, ModuleAssumption DEF HandlesTypeOK, HandleTypeOK, Refs
<1>4. \A t \in Slot \ {s} : Refs(t)' = Refs(t)
  BY <1>1 DEF HandlesTypeOK, HandleTypeOK, Refs
<1>5. Cardinality(Refs(s)') = Cardinality(Refs(s)) - 1
  BY <1>3, RefsFinite, FS_RemoveElement
<1>6. Cardinality(Refs(s)') \in Nat
  BY <1>3, RefsFinite, FS_RemoveElement, FS_CardinalityType
<1>7. \A k \in Handle : htype'[k] = "module" =>
                /\ htype[k] = "module"
                /\ hslot'[k] = hslot[k]
                /\ hinst'[k] = hinst[k]
                /\ k # h
  BY <1>1 DEF HandlesTypeOK, HandleTypeOK
<1> QED BY <1>2, <1>4, <1>5, <1>6, <1>7

(* An entry of another capability comes and goes without touching a        *)
(* reference.                                                              *)
LEMMA OtherRefs ==
    ASSUME HandlesTypeOK,
           \/ OtherAlloc
           \/ \E h \in Handle : OtherFree(h)
    PROVE  /\ HandlesTypeOK'
           /\ \A t : Refs(t)' = Refs(t)
           /\ \A k \in Handle : htype'[k] = "module" => htype[k] = "module"
<1>1. CASE OtherAlloc
  <2>1. PICK h \in Handle : HandleAlloc(h, "other")
    BY <1>1 DEF OtherAlloc
  <2>2. htype[h] = "free" /\ HandleTypeOK'
    BY <2>1, AllocFree, ModuleAssumption DEF HandlesTypeOK
  <2>3. htype' = [htype EXCEPT ![h] = "other"]
    BY <2>1 DEF HandleAlloc
  <2> QED BY <1>1, <2>2, <2>3 DEF OtherAlloc, HandlesTypeOK, HandleTypeOK, Refs
<1>2. CASE \E h \in Handle : OtherFree(h)
  BY <1>2 DEF OtherFree, HandleFree, HandlesTypeOK, HandleTypeOK, Refs
<1> QED BY <1>1, <1>2

-----------------------------------------------------------------------------
(* What entering and leaving a host call do to the builds in progress.     *)

LEMMA EnterFrames ==
    ASSUME FramesTypeOK, NEW op \in {"load", "join", "call"}, NEW s \in Slot,
           NEW k \in Key \cup {NoKey}, Enter(op, s, k)
    PROVE  /\ FramesTypeOK'
           /\ \A t : Building(t)' <=> Building(t) \/ (op # "call" /\ t = s)
           /\ BuildsApart /\ (op # "call" => ~Building(s)) => BuildsApart'
<1> DEFINE f == [op |-> op, slot |-> s, key |-> k]
<1>1. /\ depth \in Nat /\ depth < MaxDepth /\ depth' = depth + 1
      /\ depth + 1 \in 1 .. MaxDepth
      /\ frames' = [frames EXCEPT ![depth + 1] = f]
  BY ModuleAssumption DEF FramesTypeOK, Enter
<1>2. f \in Frame /\ f # NoFrame
  BY ModuleAssumption DEF Frame, NoFrame
<1>3. FramesTypeOK'
  BY <1>1, <1>2, ModuleAssumption DEF FramesTypeOK
<1>4. \A d \in 1 .. depth : frames'[d] = frames[d]
  BY <1>1, ModuleAssumption DEF FramesTypeOK
<1>5. frames'[depth + 1] = f
  BY <1>1 DEF FramesTypeOK
<1>6. 1 .. depth' = (1 .. depth) \cup {depth + 1}
  BY <1>1
<1>7. \A t : Building(t)' <=> Building(t) \/ (op # "call" /\ t = s)
  BY <1>4, <1>5, <1>6 DEF Building, Builds
<1>8. BuildsApart /\ (op # "call" => ~Building(s)) => BuildsApart'
  BY <1>4, <1>5, <1>6 DEF BuildsApart, Building, Builds
<1> QED BY <1>3, <1>7, <1>8

LEMMA LeaveFrames ==
    ASSUME FramesTypeOK, depth > 0, Leave
    PROVE  /\ FramesTypeOK'
           /\ frames[depth] \in Frame
           /\ BuildsApart => BuildsApart'
           /\ BuildsApart /\ Builds(depth) =>
                /\ Building(frames[depth].slot)
                /\ \A t : Building(t)' <=>
                            Building(t) /\ t # frames[depth].slot
           /\ ~Builds(depth) => \A t : Building(t)' <=> Building(t)
<1>1. /\ depth \in 1 .. MaxDepth /\ depth' = depth - 1
      /\ frames' = [frames EXCEPT ![depth] = NoFrame]
  BY ModuleAssumption DEF FramesTypeOK, Leave
<1>2. FramesTypeOK'
  BY <1>1, ModuleAssumption DEF FramesTypeOK
<1>3. frames[depth] \in Frame
  BY <1>1, ModuleAssumption DEF FramesTypeOK
<1>4. \A d \in 1 .. depth' : frames'[d] = frames[d] /\ d \in 1 .. depth
  BY <1>1, ModuleAssumption DEF FramesTypeOK
<1>5. 1 .. depth = (1 .. depth') \cup {depth} /\ depth \notin 1 .. depth'
  BY <1>1, ModuleAssumption
<1>6. BuildsApart => BuildsApart'
  BY <1>4 DEF BuildsApart, Builds
<1>7. BuildsApart /\ Builds(depth) =>
        /\ Building(frames[depth].slot)
        /\ \A t : Building(t)' <=> Building(t) /\ t # frames[depth].slot
  <2> DEFINE top == depth
  <2> SUFFICES ASSUME BuildsApart, Builds(top)
               PROVE  /\ Building(frames[top].slot)
                      /\ \A t : Building(t)' <=>
                                  Building(t) /\ t # frames[top].slot
    OBVIOUS
  <2>1. \A d \in 1 .. depth' :
          Builds(d) => frames[d].slot # frames[top].slot
    BY <1>5 DEF BuildsApart
  <2>2. \A d \in 1 .. depth' : Builds(d)' <=> Builds(d)
    BY <1>4 DEF Builds
  <2> QED BY <1>4, <1>5, <2>1, <2>2 DEF Building
<1>8. ~Builds(depth) => \A t : Building(t)' <=> Building(t)
  BY <1>4, <1>5 DEF Building, Builds
<1> QED BY <1>2, <1>3, <1>6, <1>7, <1>8

(* The frame on top of the stack while a load or a join waits.             *)
LEMMA TopBuild ==
    ASSUME FramesTypeOK, Top("load") \/ Top("join")
    PROVE  /\ depth > 0 /\ depth \in 1 .. MaxDepth
           /\ Builds(depth)
           /\ frames[depth] \in Frame
           /\ frames[depth].slot \in Slot
<1>1. depth > 0 /\ depth \in 1 .. MaxDepth /\ Builds(depth)
  BY ModuleAssumption DEF FramesTypeOK, Top, Builds
<1>2. frames[depth] \in Frame
  BY <1>1, ModuleAssumption DEF FramesTypeOK
<1> QED BY <1>1, <1>2 DEF Frame

-----------------------------------------------------------------------------
(* The steps that several actions share.                                   *)

(* A module is put into a free slot and its start function is called.      *)
LEMMA BeginInvariant ==
    ASSUME IInv, NEW op \in {"load", "join"}, NEW k \in Key \cup {NoKey},
           BeginInstance(op, k)
    PROVE  IInv'
<1> USE DEF IInv, TypeOK
<1>1. PICK s \in Slot :
         /\ Lowest(FreeSlots, s)
         /\ live' = [live EXCEPT ![s] = TRUE]
         /\ refcount' = [refcount EXCEPT ![s] = 0]
         /\ funcs' = [funcs EXCEPT ![s] = 0]
         /\ inst' = [inst EXCEPT ![s] = made + 1]
         /\ Enter(op, s, k)
  BY DEF BeginInstance
<1>2. /\ made' = made + 1 /\ made < MaxInst
      /\ UNCHANGED <<handleVars, serviceVars, fn>>
  BY DEF BeginInstance
<1>3. ~live[s]
  BY <1>1 DEF Lowest, FreeSlots
<1>4. Refs(s) = {} /\ ~Building(s)
  BY <1>3 DEF SlotsAccounted, SlotsUsed
<1>5. /\ FramesTypeOK'
      /\ \A t : Building(t)' <=> Building(t) \/ t = s
      /\ BuildsApart'
  BY <1>1, <1>4, EnterFrames DEF SlotsAccounted
<1>6. \A t : Refs(t)' = Refs(t)
  BY <1>2 DEF Refs, handleVars
<1>7. SlotsTypeOK' /\ made' \in 0 .. MaxInst
  BY <1>1, <1>2, ModuleAssumption DEF SlotsTypeOK, Inst
<1>8. HandlesTypeOK' /\ ServicesTypeOK' /\ fn' \in FnHandle \cup {NoFn}
  BY <1>2 DEF handleVars, serviceVars, HandlesTypeOK, HandleTypeOK,
              ServicesTypeOK
<1>9. RefcountExact'
  BY <1>1, <1>4, <1>6, FS_EmptySet DEF RefcountExact, SlotsTypeOK
<1>10. HandlesMeanInstance'
  <2> SUFFICES ASSUME NEW h \in Handle, htype[h] = "module"
               PROVE  hslot[h] \in Slot /\ live'[hslot[h]]
                        /\ inst'[hslot[h]] = hinst[h]
    BY <1>2 DEF HandlesMeanInstance, handleVars
  <2>1. hslot[h] \in Slot /\ live[hslot[h]] /\ inst[hslot[h]] = hinst[h]
    BY DEF HandlesMeanInstance
  <2>2. hslot[h] # s
    BY <2>1, <1>3
  <2> QED BY <2>1, <2>2, <1>1 DEF SlotsTypeOK
<1>11. SlotsAccounted'
  <2>1. SlotsUsed'
    BY <1>1, <1>5, <1>6 DEF SlotsAccounted, SlotsUsed, SlotsTypeOK
  <2>2. BuiltUnreferenced'
    BY <1>4, <1>5, <1>6 DEF SlotsAccounted, BuiltUnreferenced
  <2> QED BY <2>1, <2>2, <1>5 DEF SlotsAccounted
<1>12. ServicesHeld'
  BY <1>2, <1>6 DEF ServicesHeld, serviceVars
<1> QED BY <1>5, <1>7, <1>8, <1>9, <1>10, <1>11, <1>12

(* A load or a join gives up and frees the slot it has built.  Whatever it *)
(* writes into entries of the registry that are not in use is harmless.    *)
LEMMA TearDownInvariant ==
    ASSUME IInv, Top("load") \/ Top("join"),
           SlotFree(frames[depth].slot), Leave,
           UNCHANGED <<handleVars, skey, fn, made>>, ServicesTypeOK',
           \A e \in Service : skey[e] # NoKey => sslot'[e] = sslot[e]
    PROVE  IInv'
<1> USE DEF IInv, TypeOK
<1> DEFINE s == frames[depth].slot
<1>1. depth > 0 /\ Builds(depth) /\ s \in Slot
  BY TopBuild
<1>2. /\ FramesTypeOK' /\ BuildsApart' /\ Building(s)
      /\ \A t : Building(t)' <=> Building(t) /\ t # s
  BY <1>1, LeaveFrames DEF SlotsAccounted
<1>3. Refs(s) = {}
  BY <1>1, <1>2 DEF SlotsAccounted, BuiltUnreferenced
<1>4. \A t : Refs(t)' = Refs(t)
  BY DEF Refs, handleVars
<1>5. /\ live' = [live EXCEPT ![s] = FALSE]
      /\ refcount' = [refcount EXCEPT ![s] = 0]
      /\ funcs' = [funcs EXCEPT ![s] = 0]
      /\ inst' = [inst EXCEPT ![s] = 0]
  BY DEF SlotFree
<1> HIDE DEF s
<1>6. SlotsTypeOK'
  BY <1>1, <1>5, ModuleAssumption DEF SlotsTypeOK
<1>7. HandlesTypeOK'
  BY DEF handleVars, HandlesTypeOK, HandleTypeOK
<1>8. RefcountExact'
  BY <1>1, <1>3, <1>4, <1>5, FS_EmptySet DEF RefcountExact, SlotsTypeOK
<1>9. HandlesMeanInstance'
  <2> SUFFICES ASSUME NEW h \in Handle, htype[h] = "module"
               PROVE  hslot[h] \in Slot /\ live'[hslot[h]]
                        /\ inst'[hslot[h]] = hinst[h]
    BY DEF HandlesMeanInstance, handleVars
  <2>1. hslot[h] \in Slot /\ live[hslot[h]] /\ inst[hslot[h]] = hinst[h]
    BY DEF HandlesMeanInstance
  <2>2. h \in Refs(hslot[h])
    BY DEF Refs
  <2>3. hslot[h] # s
    BY <2>2, <1>3
  <2> QED BY <2>1, <2>3, <1>5 DEF SlotsTypeOK
<1>10. SlotsAccounted'
  <2>1. SlotsUsed'
    BY <1>1, <1>2, <1>3, <1>4, <1>5 DEF SlotsAccounted, SlotsUsed, SlotsTypeOK
  <2>2. BuiltUnreferenced'
    BY <1>2, <1>4 DEF SlotsAccounted, BuiltUnreferenced
  <2> QED BY <2>1, <2>2, <1>2 DEF SlotsAccounted
<1>11. ServicesHeld'
  BY <1>4 DEF ServicesHeld
<1> QED BY <1>2, <1>6, <1>7, <1>8, <1>9, <1>10, <1>11

(* A load or a join ends well: the slot it has built gets its first        *)
(* reference as the build leaves the stack.                                *)
LEMMA BuildDone ==
    ASSUME IInv, Top("load") \/ Top("join"),
           NEW s \in Slot, s = frames[depth].slot,
           refcount' = [refcount EXCEPT ![s] = 1],
           GiveHandle(s), Leave, UNCHANGED <<live, funcs, inst>>
    PROVE  /\ HandlesTypeOK' /\ SlotsTypeOK' /\ FramesTypeOK'
           /\ RefcountExact' /\ HandlesMeanInstance' /\ SlotsAccounted'
           /\ Refs(s) = {} /\ Refs(s)' # {}
           /\ \A t \in Slot : Refs(t) # {} => Refs(t)' # {}
<1> USE DEF IInv, TypeOK
<1>1. /\ FramesTypeOK' /\ BuildsApart' /\ Building(s)
      /\ \A t : Building(t)' <=> Building(t) /\ t # s
  BY TopBuild, LeaveFrames DEF SlotsAccounted
<1>2. Refs(s) = {} /\ live[s]
  BY <1>1 DEF SlotsAccounted, BuiltUnreferenced, SlotsUsed
<1>3. /\ HandlesTypeOK'
      /\ Refs(s)' # {}
      /\ Cardinality(Refs(s)') = Cardinality(Refs(s)) + 1
      /\ \A t \in Slot \ {s} : Refs(t)' = Refs(t)
      /\ \A k \in Handle : htype'[k] = "module" =>
           \/ htype[k] = "module" /\ hslot'[k] = hslot[k]
                                  /\ hinst'[k] = hinst[k]
           \/ hslot'[k] = s /\ hinst'[k] = inst[s]
  BY GiveHandleRefs
<1>4. SlotsTypeOK'
  BY DEF SlotsTypeOK
<1>5. RefcountExact'
  BY <1>2, <1>3, FS_EmptySet DEF RefcountExact, SlotsTypeOK
<1>6. HandlesMeanInstance'
  BY <1>2, <1>3 DEF HandlesMeanInstance
<1>7. SlotsAccounted'
  <2>1. SlotsUsed'
    BY <1>1, <1>2, <1>3 DEF SlotsAccounted, SlotsUsed
  <2>2. BuiltUnreferenced'
    BY <1>1, <1>3 DEF SlotsAccounted, BuiltUnreferenced
  <2> QED BY <2>1, <2>2, <1>1 DEF SlotsAccounted
<1>8. \A t \in Slot : Refs(t) # {} => Refs(t)' # {}
  BY <1>3
<1> QED BY <1>1, <1>2, <1>3, <1>4, <1>5, <1>6, <1>7, <1>8

(* A service always has a handle, so a join that attaches to it finds a    *)
(* live slot with a positive count.                                        *)
LEMMA ServiceAttached ==
    ASSUME IInv, NEW k \in Key, NEW e \in Service, Lowest(Registered(k), e)
    PROVE  /\ sslot[e] \in Slot /\ live[sslot[e]]
           /\ Refs(sslot[e]) # {}
           /\ refcount[sslot[e]] # 0
<1> USE DEF IInv, TypeOK
<1>1. skey[e] # NoKey
  BY ModuleAssumption DEF Lowest, Registered
<1>2. sslot[e] \in Slot /\ Refs(sslot[e]) # {}
  BY <1>1 DEF ServicesHeld
<1>3. live[sslot[e]]
  BY <1>2 DEF SlotsAccounted, SlotsUsed
<1>4. refcount[sslot[e]] # 0
  BY <1>2, RefsFinite DEF RefcountExact
<1> QED BY <1>2, <1>3, <1>4

(* A join attaches to a running service.                                   *)
LEMMA AttachInvariant ==
    ASSUME IInv, NEW k \in Key, JoinAttach(k)
    PROVE  IInv'
<1> USE DEF IInv, TypeOK
<1>1. PICK e \in Service :
        /\ Lowest(Registered(k), e)
        /\ refcount' = [refcount EXCEPT ![sslot[e]] = @ + 1]
        /\ GiveHandle(sslot[e])
  BY DEF JoinAttach
<1>2. PICK s \in Slot : s = sslot[e] /\ live[s] /\ Refs(s) # {}
  BY <1>1, ServiceAttached
<1>3. UNCHANGED <<live, funcs, inst, serviceVars, frameVars, fn, made>>
  BY DEF JoinAttach
<1>4. /\ HandlesTypeOK'
      /\ Refs(s)' # {}
      /\ Cardinality(Refs(s)') = Cardinality(Refs(s)) + 1
      /\ \A t \in Slot \ {s} : Refs(t)' = Refs(t)
      /\ \A h \in Handle : htype'[h] = "module" =>
           \/ htype[h] = "module" /\ hslot'[h] = hslot[h]
                                  /\ hinst'[h] = hinst[h]
           \/ hslot'[h] = s /\ hinst'[h] = inst[s]
  BY <1>1, <1>2, GiveHandleRefs
<1>5. refcount' = [refcount EXCEPT ![s] = refcount[s] + 1]
  BY <1>1, <1>2
<1>6. SlotsTypeOK'
  BY <1>3, <1>5 DEF SlotsTypeOK
<1>7. ServicesTypeOK' /\ FramesTypeOK' /\ made' \in 0 .. MaxInst
      /\ fn' \in FnHandle \cup {NoFn}
  BY <1>3 DEF ServicesTypeOK, FramesTypeOK, serviceVars, frameVars
<1>8. RefcountExact'
  BY <1>4, <1>5 DEF RefcountExact, SlotsTypeOK
<1>9. HandlesMeanInstance'
  BY <1>2, <1>3, <1>4 DEF HandlesMeanInstance
<1>10. \A t : Building(t)' <=> Building(t)
  BY <1>3 DEF Building, Builds, frameVars
<1>11. ~Building(s)
  BY <1>2 DEF SlotsAccounted, BuiltUnreferenced
<1>12. SlotsAccounted'
  <2>1. SlotsUsed'
    BY <1>2, <1>3, <1>4, <1>10 DEF SlotsAccounted, SlotsUsed
  <2>2. BuiltUnreferenced'
    BY <1>4, <1>10, <1>11 DEF SlotsAccounted, BuiltUnreferenced
  <2>3. BuildsApart'
    BY <1>3 DEF SlotsAccounted, BuildsApart, Builds, frameVars
  <2> QED BY <2>1, <2>2, <2>3 DEF SlotsAccounted
<1>13. ServicesHeld'
  <2>1. \A t \in Slot : Refs(t) # {} => Refs(t)' # {}
    BY <1>4
  <2>2. skey' = skey /\ sslot' = sslot
    BY <1>3 DEF serviceVars
  <2>3. ASSUME NEW d \in Service, skey[d] # NoKey
        PROVE  \E t \in Slot : t = sslot[d] /\ Refs(t)' # {}
    BY <2>1, <2>3 DEF ServicesHeld
  <2>4. \A d \in Service : skey[d] # NoKey => Refs(sslot[d])' # {}
    BY <2>2, <2>3
  <2> QED BY <2>2, <2>4 DEF ServicesHeld
<1> QED BY <1>4, <1>6, <1>7, <1>8, <1>9, <1>12, <1>13

(* The first join of a service registers what it has built.                *)
LEMMA JoinEndInvariant ==
    ASSUME IInv, JoinEnd
    PROVE  IInv'
<1> USE DEF IInv, TypeOK
<1>1. PICK s \in Slot : s = frames[depth].slot
  BY TopBuild DEF JoinEnd
<1>2. PICK e \in Service :
        /\ Lowest(FreeEntries, e)
        /\ refcount' = [refcount EXCEPT ![s] = 1]
        /\ GiveHandle(s)
        /\ skey' = [skey EXCEPT ![e] = frames[depth].key]
        /\ sslot' = [sslot EXCEPT ![e] = s]
  BY <1>1 DEF JoinEnd
<1>3. Top("join") /\ Leave /\ UNCHANGED <<live, funcs, inst, fn, made>>
  BY DEF JoinEnd
<1>4. /\ HandlesTypeOK' /\ SlotsTypeOK' /\ FramesTypeOK'
      /\ RefcountExact' /\ HandlesMeanInstance' /\ SlotsAccounted'
      /\ Refs(s) = {} /\ Refs(s)' # {}
      /\ \A t \in Slot : Refs(t) # {} => Refs(t)' # {}
  BY <1>1, <1>2, <1>3, BuildDone
<1>5. frames[depth].key \in Key \cup {NoKey}
  BY <1>3, TopBuild DEF Frame
<1>6. ServicesTypeOK'
  BY <1>2, <1>5 DEF ServicesTypeOK
<1>7. ServicesHeld'
  <2>1. \A d \in Service \ {e} : skey'[d] = skey[d] /\ sslot'[d] = sslot[d]
    BY <1>2 DEF ServicesTypeOK
  <2>2. sslot'[e] = s
    BY <1>2 DEF ServicesTypeOK
  <2>3. \A d \in Service \ {e} : skey[d] # NoKey =>
          sslot[d] \in Slot /\ sslot[d] # s
    BY <1>4 DEF ServicesHeld
  <2>4. ASSUME NEW d \in Service, skey'[d] # NoKey
        PROVE  \E t \in Slot : t = sslot'[d] /\ Refs(t)' # {}
    <3>1. CASE d = e
      BY <3>1, <2>2, <1>4
    <3>2. CASE d # e
      BY <3>2, <2>1, <2>4, <1>4 DEF ServicesHeld
    <3> QED BY <3>1, <3>2
  <2>5. \A d \in Service : skey'[d] # NoKey =>
          sslot'[d] \in Slot /\ Refs(sslot[d])' # {}
    BY <2>4
  <2>6. ASSUME NEW c \in Service, NEW d \in Service, skey'[c] # NoKey,
               skey'[d] # NoKey, sslot'[c] = sslot'[d]
        PROVE  c = d
    BY <2>1, <2>2, <2>3, <2>6 DEF ServicesHeld
  <2> QED BY <2>5, <2>6 DEF ServicesHeld
<1> QED BY <1>3, <1>4, <1>6, <1>7

(* A release that is not the last one.                                     *)
LEMMA ReleaseOneInvariant ==
    ASSUME IInv, NEW h \in Handle, ReleaseOne(h)
    PROVE  IInv'
<1> USE DEF IInv, TypeOK
<1>1. PICK s \in Slot : s = hslot[h] /\ live[s]
  BY DEF ReleaseOne, HandlesMeanInstance
<1>2. /\ htype[h] = "module" /\ HandleFree(h)
      /\ refcount[s] # 1
      /\ refcount' = [refcount EXCEPT ![s] = refcount[s] - 1]
      /\ hslot' = [hslot EXCEPT ![h] = NoSlot]
      /\ hinst' = [hinst EXCEPT ![h] = 0]
      /\ UNCHANGED <<live, funcs, inst, serviceVars, frameVars, fn, made>>
  BY <1>1 DEF ReleaseOne
<1>3. /\ HandlesTypeOK'
      /\ Cardinality(Refs(s)') = Cardinality(Refs(s)) - 1
      /\ Cardinality(Refs(s)') \in Nat
      /\ \A t \in Slot \ {s} : Refs(t)' = Refs(t)
      /\ \A k \in Handle : htype'[k] = "module" =>
           /\ htype[k] = "module"
           /\ hslot'[k] = hslot[k]
           /\ hinst'[k] = hinst[k]
           /\ k # h
  BY <1>1, <1>2, ReleaseRefs
<1>4. h \in Refs(s)
  BY <1>1, <1>2 DEF Refs
<1>5. refcount[s] = Cardinality(Refs(s)) /\ refcount[s] \in Nat
  BY DEF RefcountExact, SlotsTypeOK
<1>6. Refs(s)' # {}
  <2>1. Cardinality(Refs(s)') # 0
    BY <1>2, <1>3, <1>5
  <2> QED BY <2>1, FS_EmptySet
<1>7. refcount[s] - 1 \in Nat
  BY <1>3, <1>5
<1>8. SlotsTypeOK'
  BY <1>2, <1>7 DEF SlotsTypeOK
<1>9. ServicesTypeOK' /\ FramesTypeOK' /\ made' \in 0 .. MaxInst
      /\ fn' \in FnHandle \cup {NoFn}
  BY <1>2 DEF ServicesTypeOK, FramesTypeOK, serviceVars, frameVars
<1>10. RefcountExact'
  BY <1>2, <1>3, <1>5 DEF RefcountExact, SlotsTypeOK
<1>11. HandlesMeanInstance'
  BY <1>2, <1>3 DEF HandlesMeanInstance
<1>12. \A t : Building(t)' <=> Building(t)
  BY <1>2 DEF Building, Builds, frameVars
<1>13. SlotsAccounted'
  <2>1. SlotsUsed'
    BY <1>2, <1>3, <1>4, <1>6, <1>12 DEF SlotsAccounted, SlotsUsed
  <2>2. BuiltUnreferenced'
    BY <1>3, <1>4, <1>12 DEF SlotsAccounted, BuiltUnreferenced
  <2>3. BuildsApart'
    BY <1>2 DEF SlotsAccounted, BuildsApart, Builds, frameVars
  <2> QED BY <2>1, <2>2, <2>3 DEF SlotsAccounted
<1>14. ServicesHeld'
  <2>1. \A t \in Slot : Refs(t) # {} => Refs(t)' # {}
    BY <1>3, <1>6
  <2>2. skey' = skey /\ sslot' = sslot
    BY <1>2 DEF serviceVars
  <2>3. ASSUME NEW d \in Service, skey[d] # NoKey
        PROVE  \E t \in Slot : t = sslot[d] /\ Refs(t)' # {}
    BY <2>1, <2>3 DEF ServicesHeld
  <2>4. \A d \in Service : skey[d] # NoKey => Refs(sslot[d])' # {}
    BY <2>2, <2>3
  <2> QED BY <2>2, <2>4 DEF ServicesHeld
<1> QED BY <1>3, <1>8, <1>9, <1>10, <1>11, <1>13, <1>14

(* The last release takes the service entry and the slot with it.          *)
LEMMA ReleaseLastInvariant ==
    ASSUME IInv, NEW h \in Handle, ReleaseLast(h)
    PROVE  IInv'
<1> USE DEF IInv, TypeOK
<1>1. PICK s \in Slot : s = hslot[h] /\ live[s]
  BY DEF ReleaseLast, HandlesMeanInstance
<1>2. /\ htype[h] = "module" /\ HandleFree(h)
      /\ refcount[s] = 1
      /\ hslot' = [hslot EXCEPT ![h] = NoSlot]
      /\ hinst' = [hinst EXCEPT ![h] = 0]
      /\ UNCHANGED <<sslot, frameVars, fn, made>>
  BY <1>1 DEF ReleaseLast
<1>3. /\ live' = [live EXCEPT ![s] = FALSE]
      /\ refcount' = [refcount EXCEPT ![s] = 0]
      /\ funcs' = [funcs EXCEPT ![s] = 0]
      /\ inst' = [inst EXCEPT ![s] = 0]
  BY <1>1 DEF ReleaseLast, SlotFree
<1>4. skey' = [e \in Service |->
                 IF Lowest(EntriesOf(s), e) THEN NoKey ELSE skey[e]]
  BY <1>1 DEF ReleaseLast
<1>5. /\ HandlesTypeOK'
      /\ Cardinality(Refs(s)') = Cardinality(Refs(s)) - 1
      /\ Cardinality(Refs(s)') \in Nat
      /\ \A t \in Slot \ {s} : Refs(t)' = Refs(t)
      /\ \A k \in Handle : htype'[k] = "module" =>
           /\ htype[k] = "module"
           /\ hslot'[k] = hslot[k]
           /\ hinst'[k] = hinst[k]
           /\ k # h
  BY <1>1, <1>2, ReleaseRefs
<1>6. Refs(s)' = {}
  <2>1. Cardinality(Refs(s)') = 0
    BY <1>2, <1>5 DEF RefcountExact
  <2>2. Refs(s)' \subseteq Handle
    BY DEF Refs
  <2>3. IsFiniteSet(Refs(s)')
    BY <2>2, HandleFinite, FS_Subset
  <2> QED BY <2>1, <2>3, FS_EmptySet
<1>7. h \in Refs(s)
  BY <1>1, <1>2 DEF Refs
<1>8. SlotsTypeOK'
  BY <1>3, ModuleAssumption DEF SlotsTypeOK
<1>9. ServicesTypeOK' /\ FramesTypeOK' /\ made' \in 0 .. MaxInst
      /\ fn' \in FnHandle \cup {NoFn}
  BY <1>2, <1>4 DEF ServicesTypeOK, FramesTypeOK, frameVars
<1>10. RefcountExact'
  BY <1>3, <1>5, <1>6, FS_EmptySet DEF RefcountExact, SlotsTypeOK
<1>11. HandlesMeanInstance'
  <2> SUFFICES ASSUME NEW k \in Handle, htype'[k] = "module"
               PROVE  hslot'[k] \in Slot /\ live'[hslot'[k]]
                        /\ inst'[hslot'[k]] = hinst'[k]
    BY DEF HandlesMeanInstance
  <2>1. /\ hslot'[k] = hslot[k] /\ hinst'[k] = hinst[k]
        /\ hslot[k] \in Slot /\ live[hslot[k]] /\ inst[hslot[k]] = hinst[k]
    BY <1>5 DEF HandlesMeanInstance
  <2>2. hslot'[k] # s
    BY <1>6 DEF Refs
  <2> QED BY <2>1, <2>2, <1>3 DEF SlotsTypeOK
<1>12. \A t : Building(t)' <=> Building(t)
  BY <1>2 DEF Building, Builds, frameVars
<1>13. ~Building(s)
  BY <1>7 DEF SlotsAccounted, BuiltUnreferenced
<1>14. SlotsAccounted'
  <2>1. SlotsUsed'
    BY <1>3, <1>5, <1>6, <1>12, <1>13
       DEF SlotsAccounted, SlotsUsed, SlotsTypeOK
  <2>2. BuiltUnreferenced'
    BY <1>5, <1>6, <1>12 DEF SlotsAccounted, BuiltUnreferenced
  <2>3. BuildsApart'
    BY <1>2 DEF SlotsAccounted, BuildsApart, Builds, frameVars
  <2> QED BY <2>1, <2>2, <2>3 DEF SlotsAccounted
<1>15. ServicesHeld'
  <2>1. \A d \in Service : skey'[d] # NoKey =>
          skey[d] # NoKey /\ skey'[d] = skey[d] /\ ~Lowest(EntriesOf(s), d)
    BY <1>4
  <2>2. ASSUME NEW d \in Service, skey'[d] # NoKey
        PROVE  sslot[d] \in Slot /\ sslot[d] # s
    <3>1. sslot[d] \in Slot
      BY <2>1, <2>2 DEF ServicesHeld
    <3>2. ASSUME sslot[d] = s
          PROVE  Lowest(EntriesOf(s), d)
      <4>1. \A e \in EntriesOf(s) : e = d
        BY <2>1, <2>2, <3>2 DEF EntriesOf, ServicesHeld
      <4>2. d \in EntriesOf(s)
        BY <2>1, <2>2, <3>2 DEF EntriesOf
      <4>3. d <= d
        BY ModuleAssumption DEF Service
      <4> QED BY <4>1, <4>2, <4>3 DEF Lowest
    <3> QED BY <3>1, <3>2, <2>1, <2>2
  <2>3. ASSUME NEW d \in Service, skey'[d] # NoKey
        PROVE  \E t \in Slot : t = sslot[d] /\ Refs(t)' # {}
    BY <2>1, <2>2, <2>3, <1>5 DEF ServicesHeld
  <2>4. \A d \in Service : skey'[d] # NoKey => Refs(sslot[d])' # {}
    BY <2>3, <1>2
  <2> QED BY <2>1, <2>2, <2>4, <1>2 DEF ServicesHeld
<1> QED BY <1>5, <1>8, <1>9, <1>10, <1>11, <1>14, <1>15

(* Steps that leave every reference, slot and service as it is: only the   *)
(* function entries, the stack and the handles of others move.             *)
LEMMA QuietInvariant ==
    ASSUME IInv, HandlesTypeOK', FramesTypeOK',
           fn' \in FnHandle \cup {NoFn},
           funcs' \in [Slot -> 0 .. MaxFuncs],
           \A t : Refs(t)' = Refs(t),
           \A k \in Handle : htype'[k] = "module" => htype[k] = "module",
           \A t : Building(t)' <=> Building(t), BuildsApart',
           UNCHANGED <<hslot, hinst, live, refcount, inst, skey, made>>,
           ServicesTypeOK',
           \A e \in Service : skey[e] # NoKey => sslot'[e] = sslot[e]
    PROVE  IInv'
<1> USE DEF IInv, TypeOK
<1>1. SlotsTypeOK'
  BY DEF SlotsTypeOK
<1>2. RefcountExact'
  BY DEF RefcountExact
<1>3. HandlesMeanInstance'
  BY DEF HandlesMeanInstance
<1>4. SlotsAccounted'
  BY DEF SlotsAccounted, SlotsUsed, BuiltUnreferenced
<1>5. ServicesHeld'
  BY DEF ServicesHeld
<1> QED BY <1>1, <1>2, <1>3, <1>4, <1>5

-----------------------------------------------------------------------------
LEMMA InitInvariant == Init => IInv
<1> SUFFICES ASSUME Init PROVE IInv
  OBVIOUS
<1> USE HandleAssumption, ModuleAssumption DEF Init, HandleInit
<1>1. TypeOK
  <2>1. HandlesTypeOK
    BY DEF HandlesTypeOK, HandleTypeOK
  <2>2. SlotsTypeOK /\ ServicesTypeOK
    BY DEF SlotsTypeOK, ServicesTypeOK
  <2>3. FramesTypeOK
    BY DEF FramesTypeOK
  <2> QED BY <2>1, <2>2, <2>3 DEF TypeOK
<1>2. \A s : Refs(s) = {} /\ ~Building(s)
  BY DEF Refs, Building
<1>3. RefcountExact
  BY <1>2, FS_EmptySet DEF RefcountExact
<1>4. HandlesMeanInstance
  BY DEF HandlesMeanInstance
<1>5. SlotsAccounted
  BY <1>2 DEF SlotsAccounted, SlotsUsed, BuiltUnreferenced, BuildsApart
<1>6. ServicesHeld
  BY DEF ServicesHeld
<1> QED BY <1>1, <1>3, <1>4, <1>5, <1>6 DEF IInv

LEMMA NextInvariant == IInv /\ [Next]_vars => IInv'
<1> SUFFICES ASSUME IInv, [Next]_vars PROVE IInv'
  OBVIOUS
<1> USE DEF IInv, TypeOK
<1>1. CASE LoadBegin
  BY <1>1, BeginInvariant DEF LoadBegin
<1>2. CASE LoadEnd
  <2>1. PICK s \in Slot : s = frames[depth].slot
    BY <1>2, TopBuild DEF LoadEnd
  <2>2. Top("load") /\ Leave /\ UNCHANGED <<serviceVars, fn, made>>
    BY <1>2 DEF LoadEnd
  <2>3. CASE /\ refcount' = [refcount EXCEPT ![s] = 1]
             /\ GiveHandle(s)
             /\ UNCHANGED <<live, funcs, inst>>
    <3>1. /\ HandlesTypeOK' /\ SlotsTypeOK' /\ FramesTypeOK'
          /\ RefcountExact' /\ HandlesMeanInstance' /\ SlotsAccounted'
          /\ \A t \in Slot : Refs(t) # {} => Refs(t)' # {}
      BY <2>1, <2>2, <2>3, BuildDone
    <3>2. skey' = skey /\ sslot' = sslot
      BY <2>2 DEF serviceVars
    <3>3. ServicesTypeOK' /\ fn' \in FnHandle \cup {NoFn}
            /\ made' \in 0 .. MaxInst
      BY <2>2, <3>2 DEF ServicesTypeOK
    <3>4. ASSUME NEW d \in Service, skey[d] # NoKey
          PROVE  \E t \in Slot : t = sslot[d] /\ Refs(t)' # {}
      BY <3>1, <3>4 DEF ServicesHeld
    <3>5. \A d \in Service : skey[d] # NoKey => Refs(sslot[d])' # {}
      BY <3>2, <3>4
    <3>6. ServicesHeld'
      BY <3>2, <3>5 DEF ServicesHeld
    <3> QED BY <3>1, <3>3, <3>6
  <2>4. CASE TableFull /\ SlotFree(s) /\ UNCHANGED handleVars
    <3>1. ServicesTypeOK'
      BY <2>2 DEF ServicesTypeOK, serviceVars
    <3> QED BY <2>1, <2>2, <2>4, <3>1, TearDownInvariant DEF serviceVars
  <2> QED BY <1>2, <2>1, <2>3, <2>4 DEF LoadEnd
<1>3. ASSUME NEW k \in Key, JoinBegin(k) PROVE IInv'
  BY <1>3, BeginInvariant DEF JoinBegin
<1>4. ASSUME NEW k \in Key, JoinAttach(k) PROVE IInv'
  BY <1>4, AttachInvariant
<1>5. ASSUME NEW k \in Key, JoinAttachNoHandle(k) PROVE IInv'
  <2>1. PICK e \in Service : Lowest(Registered(k), e) /\
          IF refcount[sslot[e]] = 0
          THEN SlotFree(sslot[e]) /\ skey' = [skey EXCEPT ![e] = NoKey]
          ELSE UNCHANGED <<slotVars, skey>>
    BY <1>5 DEF JoinAttachNoHandle
  <2>2. UNCHANGED <<slotVars, skey>>
    BY <2>1, ServiceAttached
  <2>3. UNCHANGED <<handleVars, sslot, frameVars, fn, made>>
    BY <1>5 DEF JoinAttachNoHandle
  <2> QED BY <2>2, <2>3, QuietInvariant
          DEF slotVars, handleVars, frameVars, HandlesTypeOK, HandleTypeOK,
              SlotsTypeOK, ServicesTypeOK, FramesTypeOK, SlotsAccounted,
              BuildsApart, Building, Builds, Refs
<1>6. CASE JoinNoEntry
  <2>1. ServicesTypeOK'
    BY <1>6 DEF JoinNoEntry, ServicesTypeOK, serviceVars
  <2> QED BY <1>6, <2>1, TearDownInvariant DEF JoinNoEntry, serviceVars
<1>7. CASE JoinEnd
  BY <1>7, JoinEndInvariant
<1>8. CASE JoinEndNoHandle
  <2>1. PICK s \in Slot : s = frames[depth].slot
    BY <1>8, TopBuild DEF JoinEndNoHandle
  <2>2. PICK e \in Service :
          Lowest(FreeEntries, e) /\ sslot' = [sslot EXCEPT ![e] = s]
    BY <1>8, <2>1 DEF JoinEndNoHandle
  <2>3. skey[e] = NoKey
    BY <2>2 DEF Lowest, FreeEntries
  <2>4. ServicesTypeOK' /\
          \A d \in Service : skey[d] # NoKey => sslot'[d] = sslot[d]
    BY <1>8, <2>2, <2>3 DEF ServicesTypeOK, JoinEndNoHandle
  <2> QED BY <1>8, <2>4, TearDownInvariant DEF JoinEndNoHandle
<1>9. CASE StartTraps
  <2>1. ServicesTypeOK'
    BY <1>9 DEF StartTraps, ServicesTypeOK, serviceVars
  <2> QED BY <1>9, <2>1, TearDownInvariant DEF StartTraps, serviceVars
<1>10. ASSUME NEW h \in Handle, GetFunc(h) PROVE IInv'
  <2>1. PICK s \in Slot : s = hslot[h] /\ live[s] /\ inst[s] = hinst[h]
    BY <1>10 DEF GetFunc, HandlesMeanInstance
  <2>2. /\ funcs[s] < MaxFuncs
        /\ funcs' = [funcs EXCEPT ![s] = @ + 1]
        /\ \/ fn' = [handle |-> h, index |-> funcs[s], inst |-> hinst[h]]
           \/ UNCHANGED fn
        /\ UNCHANGED <<handleVars, live, refcount, inst, serviceVars,
                       frameVars, made>>
    BY <1>10, <2>1 DEF GetFunc
  <2>3. hinst[h] \in Inst
    BY <2>1 DEF SlotsTypeOK
  <2>4. funcs' \in [Slot -> 0 .. MaxFuncs] /\ fn' \in FnHandle \cup {NoFn}
    BY <2>2, <2>3, ModuleAssumption DEF SlotsTypeOK, FnHandle
  <2> QED BY <2>2, <2>4, QuietInvariant
          DEF handleVars, serviceVars, frameVars, HandlesTypeOK, HandleTypeOK,
              ServicesTypeOK, FramesTypeOK, SlotsAccounted, BuildsApart,
              Building, Builds, Refs
<1>11. CASE Call
  <2>1. PICK s \in Slot : s = hslot[fn.handle]
    BY <1>11 DEF Call, Resolves, FnHandle, HandlesMeanInstance
  <2>2. Enter("call", s, NoKey) /\
          UNCHANGED <<handleVars, slotVars, serviceVars, fn, made>>
    BY <1>11, <2>1 DEF Call
  <2>3. FramesTypeOK' /\ BuildsApart' /\ \A t : Building(t)' <=> Building(t)
    BY <2>2, EnterFrames DEF SlotsAccounted
  <2> QED BY <2>2, <2>3, QuietInvariant
          DEF handleVars, slotVars, serviceVars, HandlesTypeOK, HandleTypeOK,
              SlotsTypeOK, ServicesTypeOK, Refs
<1>12. CASE CallReturns
  <2>1. Leave /\ depth > 0 /\ ~Builds(depth) /\
          UNCHANGED <<handleVars, slotVars, serviceVars, fn, made>>
    BY <1>12 DEF CallReturns, Top, Builds
  <2>2. FramesTypeOK' /\ BuildsApart' /\ \A t : Building(t)' <=> Building(t)
    BY <2>1, LeaveFrames DEF SlotsAccounted
  <2> QED BY <2>1, <2>2, QuietInvariant
          DEF handleVars, slotVars, serviceVars, HandlesTypeOK, HandleTypeOK,
              SlotsTypeOK, ServicesTypeOK, Refs
<1>13. ASSUME NEW h \in Handle, ReleaseOne(h) PROVE IInv'
  BY <1>13, ReleaseOneInvariant
<1>14. ASSUME NEW h \in Handle, ReleaseLast(h) PROVE IInv'
  BY <1>14, ReleaseLastInvariant
<1>15. CASE OtherAlloc \/ \E h \in Handle : OtherFree(h)
  <2>1. /\ HandlesTypeOK'
        /\ \A t : Refs(t)' = Refs(t)
        /\ \A k \in Handle : htype'[k] = "module" => htype[k] = "module"
    BY <1>15, OtherRefs
  <2>2. UNCHANGED <<hslot, hinst, slotVars, serviceVars, frameVars, fn, made>>
    BY <1>15 DEF OtherAlloc, OtherFree
  <2> QED BY <2>1, <2>2, QuietInvariant
          DEF slotVars, serviceVars, frameVars, SlotsTypeOK, ServicesTypeOK,
              FramesTypeOK, SlotsAccounted, BuildsApart, Building, Builds
<1>16. CASE UNCHANGED vars
  BY <1>16, QuietInvariant
     DEF vars, handleVars, slotVars, serviceVars, frameVars, HandlesTypeOK,
         HandleTypeOK, SlotsTypeOK, ServicesTypeOK, FramesTypeOK,
         SlotsAccounted, BuildsApart, Building, Builds, Refs
<1> QED
  BY <1>1, <1>2, <1>3, <1>4, <1>5, <1>6, <1>7, <1>8, <1>9, <1>10, <1>11,
     <1>12, <1>13, <1>14, <1>15, <1>16 DEF Next

LEMMA InductiveInvariant == Spec => []IInv
BY InitInvariant, NextInvariant, PTL DEF Spec

-----------------------------------------------------------------------------
(* The variables keep their ranges, for every size of the tables and every *)
(* depth of re-entry.                                                      *)
THEOREM TypeCorrect == Spec => []TypeOK
BY InductiveInvariant, PTL DEF IInv

(* The counts kept by hand in load, join and release are the numbers of    *)
(* handles.                                                                *)
THEOREM RefcountsCorrect == Spec => []RefcountExact
BY InductiveInvariant, PTL DEF IInv

(* No call pulls an instance away from under a handle that refers to it.   *)
THEOREM HandlesCorrect == Spec => []HandlesMeanInstance
BY InductiveInvariant, PTL DEF IInv

(* Slots are neither leaked by a failure nor taken from a build.           *)
THEOREM SlotsCorrect == Spec => []SlotsAccounted
BY InductiveInvariant, PTL DEF IInv

(* The registry refers only to instances that somebody holds.              *)
THEOREM ServicesCorrect == Spec => []ServicesHeld
BY InductiveInvariant, PTL DEF IInv

(* A step of the table that leaves handle h in use has not touched it.     *)
LEMMA StableStep ==
    ASSUME IInv, [Next]_vars, NEW h \in Handle,
           htype[h] # "free", htype'[h] # "free"
    PROVE  htype'[h] = htype[h] /\ hinst'[h] = hinst[h]
<1> USE DEF IInv, TypeOK, HandlesTypeOK, HandleTypeOK
<1>1. ASSUME NEW s, GiveHandle(s)
      PROVE  htype'[h] = htype[h] /\ hinst'[h] = hinst[h]
  BY <1>1, AllocFree, ModuleAssumption DEF GiveHandle, HandleAlloc
<1>2. ASSUME NEW g \in Handle, ReleaseOne(g) \/ ReleaseLast(g)
      PROVE  htype'[h] = htype[h] /\ hinst'[h] = hinst[h]
  BY <1>2 DEF ReleaseOne, ReleaseLast, HandleFree
<1>3. CASE LoadEnd \/ JoinEnd \/ \E k \in Key : JoinAttach(k)
  BY <1>1, <1>3 DEF LoadEnd, JoinEnd, JoinAttach, handleVars
<1>4. CASE OtherAlloc
  BY <1>4, AllocFree, ModuleAssumption DEF OtherAlloc, HandleAlloc
<1>5. CASE \E g \in Handle : OtherFree(g)
  BY <1>5 DEF OtherFree, HandleFree
<1>6. CASE UNCHANGED handleVars
  BY <1>6 DEF handleVars
<1>7. \/ LoadEnd \/ JoinEnd \/ OtherAlloc \/ UNCHANGED handleVars
      \/ \E k \in Key : JoinAttach(k)
      \/ \E g \in Handle : ReleaseOne(g) \/ ReleaseLast(g) \/ OtherFree(g)
  BY DEF Next, LoadBegin, JoinBegin, BeginInstance, JoinAttachNoHandle,
         JoinNoEntry, JoinEndNoHandle, StartTraps, GetFunc, Call, CallReturns,
         vars
<1> QED BY <1>2, <1>3, <1>4, <1>5, <1>6, <1>7

(* No entry of the table is given out a second time while it is in use.    *)
THEOREM HandlesStayStable == Spec => HandlesStable
<1>1. IInv /\ [Next]_vars =>
        [\A h \in Handle : htype[h] # "free" /\ htype'[h] # "free" =>
           htype'[h] = htype[h] /\ hinst'[h] = hinst[h]]_vars
  BY StableStep
<1> QED BY <1>1, InductiveInvariant, PTL DEF Spec, HandlesStable
=============================================================================
