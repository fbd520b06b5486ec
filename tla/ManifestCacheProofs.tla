------------------------- MODULE ManifestCacheProofs -------------------------
(***************************************************************************)
(* Without overlap, bridge_cache::ensure implements the atomic register:   *)
(* for any number of runners, kills and writes per manifest.               *)
(***************************************************************************)
EXTENDS ManifestCache, TLAPS

Json == entry["MANIFEST.json"]
Tmp == entry["MANIFEST.json.tmp"]

\* Only one runner is inside ensure, and it carries the latest built_at.
Alone ==
    /\ \A r, q \in Runner : Busy(r) /\ Busy(q) => r = q
    /\ \A r \in Runner : Busy(r) => proc[r].builtAt = clock /\ clock # 0

\* The one who writes writes to the temp file, and has put there what it
\* says; nobody else holds a descriptor.
Writing ==
    \A r \in Runner :
        /\ proc[r].pc \notin {"write", "rename"} => proc[r].written = 0
        /\ proc[r].pc \in {"write", "rename"} =>
              /\ proc[r].fd \in Inode /\ proc[r].fd = Tmp
              /\ Len(data[Tmp]) = proc[r].written
              /\ \A i \in 1..proc[r].written : data[Tmp][i] = proc[r].builtAt
        /\ proc[r].pc = "write" => proc[r].written < Part
        /\ proc[r].pc = "rename" => proc[r].written = Part

\* What is published is whole, older than what is being written, and not
\* under the temp name.
PublishedWhole ==
    Json # None =>
        /\ Json # Tmp
        /\ Whole(data[Json])
        /\ data[Json][1] # 0 /\ data[Json][1] <= clock
        /\ \A r \in Runner : Busy(r) => data[Json][1] < clock

MInv == TypeOK /\ Alone /\ Writing /\ PublishedWhole

\* Before the first ensure nothing is there.
LEMMA InitMInv == Init => MInv
BY ManifestAssumption
   DEF Init, MInv, TypeOK, Alone, Writing, PublishedWhole, Idle, Busy, Json,
       Tmp, Name

\* A runner outside ensure has the type of a runner.
LEMMA IdleTyped == Idle \in [pc: {"idle", "open", "write", "rename", "failed"},
                             builtAt: Nat, fd: Inode \cup {None}, written: 0..Part]
BY ManifestAssumption DEF Idle

\* A step of one runner that keeps the others as they are.
LEMMA OthersKept ==
    ASSUME TypeOK, NEW r \in Runner, NEW new, proc' = [proc EXCEPT ![r] = new]
    PROVE  proc'[r] = new /\ \A q \in Runner : q # r => proc'[q] = proc[q]
BY DEF TypeOK

\* ensure is entered: nobody is inside, and the clock moves past everything.
LEMMA BeginMInv ==
    ASSUME ~Overlap, MInv, NEW r \in Runner, Begin(r)
    PROVE  MInv'
<1> DEFINE new == [Idle EXCEPT !.pc = "open", !.builtAt = clock + 1]
<1>1. /\ TypeOK /\ Alone /\ Writing /\ PublishedWhole
      /\ \A q \in Runner : ~Busy(q)
  BY DEF MInv, Begin
<1>2. /\ new.pc = "open" /\ new.builtAt = clock + 1
      /\ new.fd = None /\ new.written = 0
      /\ new \in [pc: {"idle", "open", "write", "rename", "failed"},
                   builtAt: Nat, fd: Inode \cup {None}, written: 0..Part]
  <2>1. clock + 1 \in Nat
    BY <1>1 DEF TypeOK
  <2>2. /\ Idle.fd = None /\ Idle.written = 0
        /\ Idle \in [pc: {"idle", "open", "write", "rename", "failed"},
                    builtAt: Nat, fd: Inode \cup {None}, written: 0..Part]
    BY IdleTyped DEF Idle
  <2> QED BY <2>1, <2>2
<1>3. /\ proc' = [proc EXCEPT ![r] = new] /\ proc'[r] = new
      /\ \A q \in Runner : q # r => proc'[q] = proc[q]
  BY <1>1, OthersKept DEF Begin
<1> HIDE DEF new
<1>4. clock' = clock + 1 /\ clock \in Nat /\ UNCHANGED <<entry, data>>
  BY <1>1 DEF Begin, TypeOK
<1>5. TypeOK'
  BY <1>1, <1>2, <1>3, <1>4 DEF TypeOK
<1>6. \A q \in Runner : Busy(q)' => q = r
  BY <1>1, <1>3 DEF Busy
<1>7. Alone'
  BY <1>2, <1>3, <1>4, <1>6 DEF Alone
<1>8. Writing'
  BY <1>1, <1>2, <1>3, <1>4 DEF Writing, Tmp
<1>9. PublishedWhole'
  <2>1. Json # None => data[Json][1] \in Nat
    <3> SUFFICES ASSUME Json # None PROVE data[Json][1] \in Nat
      OBVIOUS
    <3>1. data[Json] \in Seq(Nat)
      BY <1>1 DEF TypeOK, Json, Name
    <3> QED BY <3>1, <1>1, ManifestAssumption DEF PublishedWhole, Whole
  <2> QED BY <2>1, <1>1, <1>3, <1>4 DEF PublishedWhole, Json, Tmp, Whole
<1> QED BY <1>5, <1>7, <1>8, <1>9 DEF MInv

\* The temp file is opened empty; it is never the file that is published.
LEMMA OpenTmpMInv ==
    ASSUME MInv, NEW r \in Runner, OpenTmp(r)
    PROVE  MInv'
<1>1. TypeOK /\ Alone /\ Writing /\ PublishedWhole
  BY DEF MInv
<1>2. PICK i \in Inode :
        /\ IF Tmp = None THEN Free(i) ELSE i = Tmp
        /\ data' = [data EXCEPT ![i] = <<>>]
        /\ entry' = [entry EXCEPT !["MANIFEST.json.tmp"] = i]
        /\ proc' = [proc EXCEPT ![r].pc = "write", ![r].fd = i]
  BY DEF OpenTmp, Tmp
<1>3. /\ proc[r].pc = "open" /\ clock' = clock
      /\ proc[r].written = 0
  BY <1>1 DEF OpenTmp, Writing
<1>4. /\ proc'[r] = [proc[r] EXCEPT !.pc = "write", !.fd = i]
      /\ \A q \in Runner : q # r => proc'[q] = proc[q]
  BY <1>1, <1>2 DEF TypeOK
<1>5. /\ proc'[r].pc = "write" /\ proc'[r].fd = i
      /\ proc'[r].written = 0 /\ proc'[r].builtAt = proc[r].builtAt
  BY <1>1, <1>3, <1>4 DEF TypeOK
<1>6. Tmp' = i /\ Json' = Json
  BY <1>1, <1>2 DEF Tmp, Json, TypeOK, Name
<1>7. i # Json
  BY <1>1, <1>2, ManifestAssumption DEF Free, Json, Tmp, Name, PublishedWhole, TypeOK
<1>8. \A q \in Runner : Busy(q)' <=> Busy(q)
  BY <1>3, <1>4, <1>5 DEF Busy
<1>9. Busy(r)
  BY <1>3 DEF Busy
<1>10. TypeOK'
  <2>1. data' \in [Inode -> Seq(Nat)]
    BY <1>1, <1>2 DEF TypeOK
  <2>2. entry' \in [Name -> Inode \cup {None}]
    BY <1>1, <1>2 DEF TypeOK
  <2>3. proc' \in [Runner -> [pc: {"idle", "open", "write", "rename", "failed"},
                            builtAt: Nat, fd: Inode \cup {None},
                            written: 0..Part]]
    BY <1>1, <1>2 DEF TypeOK
  <2> QED BY <2>1, <2>2, <2>3, <1>1, <1>3 DEF TypeOK
<1>11. Alone'
  BY <1>1, <1>3, <1>4, <1>5, <1>8 DEF Alone
<1>12. data'[i] = <<>>
  BY <1>1, <1>2 DEF TypeOK
<1>13. Writing'
  <2>1. \A q \in Runner : q # r => ~Busy(q)
    BY <1>1, <1>9 DEF Alone
  <2>2. ASSUME NEW q \in Runner, q # r
        PROVE  proc'[q].pc \notin {"write", "rename"} /\ proc'[q].written = 0
    BY <2>1, <2>2, <1>1, <1>4 DEF Busy, Writing
  <2>3. Len(data'[i]) = 0 /\ 0 < Part
    BY <1>12, ManifestAssumption
  <2> QED BY <2>2, <2>3, <1>5, <1>6 DEF Writing
<1>14. PublishedWhole'
  <2>1. Json # None => data'[Json] = data[Json]
    BY <1>1, <1>2, <1>7 DEF TypeOK, Json, Name
  <2> QED BY <2>1, <1>1, <1>3, <1>6, <1>7, <1>8 DEF PublishedWhole, Whole
<1> QED BY <1>10, <1>11, <1>13, <1>14 DEF MInv

\* One part is appended to the temp file, at the end.
LEMMA WritePartMInv ==
    ASSUME MInv, NEW r \in Runner, WritePart(r)
    PROVE  MInv'
<1> DEFINE fd == proc[r].fd
           at == proc[r].written + 1
<1>1. TypeOK /\ Alone /\ Writing /\ PublishedWhole
  BY DEF MInv
<1>2. /\ proc[r].pc = "write" /\ clock' = clock /\ entry' = entry
      /\ Json' = Json /\ Tmp' = Tmp
  BY DEF WritePart, Json, Tmp
<1>3. /\ fd \in Inode /\ fd = Tmp /\ data[fd] \in Seq(Nat)
      /\ proc[r].written \in Nat /\ proc[r].written < Part /\ at \in 1..Part
      /\ Len(data[fd]) = proc[r].written
      /\ \A i \in 1..proc[r].written : data[fd][i] = proc[r].builtAt
      /\ proc[r].builtAt \in Nat
  BY <1>1, <1>2, ManifestAssumption DEF Writing, TypeOK
<1> DEFINE new == [i \in 1..at |-> IF i = at THEN proc[r].builtAt
                         ELSE IF i <= Len(data[fd]) THEN data[fd][i] ELSE 0]
<1>4. /\ data' = [data EXCEPT ![fd] = new]
      /\ proc' = [proc EXCEPT ![r].written = at,
                     ![r].pc = IF at = Part THEN "rename" ELSE "write"]
  <2>1. (IF Len(data[fd]) < at THEN at ELSE Len(data[fd])) = at
    BY <1>3
  <2> QED BY <2>1 DEF WritePart
<1>5. /\ proc'[r].written = at /\ proc'[r].fd = fd
      /\ proc'[r].builtAt = proc[r].builtAt
      /\ proc'[r].pc = (IF at = Part THEN "rename" ELSE "write")
      /\ \A q \in Runner : q # r => proc'[q] = proc[q]
  BY <1>1, <1>4 DEF TypeOK
<1>6. /\ new \in Seq(Nat) /\ Len(new) = at
      /\ \A i \in 1..at : new[i] = proc[r].builtAt
  <2>1. \A i \in 1..at : new[i] = proc[r].builtAt
    BY <1>3
  <2>2. new \in [1..at -> Nat] /\ at \in Nat
    BY <2>1, <1>3
  <2> HIDE DEF new
  <2> QED BY <2>1, <2>2
<1> HIDE DEF new
<1>7. data'[fd] = new /\ \A i \in Inode : i # fd => data'[i] = data[i]
  BY <1>1, <1>3, <1>4 DEF TypeOK
<1>8. TypeOK'
  <2>1. data' \in [Inode -> Seq(Nat)]
    BY <1>1, <1>4, <1>6 DEF TypeOK
  <2>2. proc' \in [Runner -> [pc: {"idle", "open", "write", "rename", "failed"},
                            builtAt: Nat, fd: Inode \cup {None},
                            written: 0..Part]]
    <3>1. at \in 0..Part
      BY <1>3, ManifestAssumption
    <3> QED BY <3>1, <1>1, <1>4 DEF TypeOK
  <2> QED BY <2>1, <2>2, <1>1, <1>2 DEF TypeOK
<1>9. Busy(r) /\ \A q \in Runner : Busy(q)' <=> Busy(q)
  BY <1>2, <1>5 DEF Busy
<1>10. Alone'
  BY <1>1, <1>2, <1>5, <1>9 DEF Alone
<1>11. Writing'
  <2>1. ASSUME NEW q \in Runner, q # r
        PROVE  proc'[q].pc \notin {"write", "rename"} /\ proc'[q].written = 0
    BY <2>1, <1>1, <1>5, <1>9 DEF Alone, Busy, Writing
  <2>2. /\ proc'[r].fd \in Inode /\ proc'[r].fd = Tmp'
        /\ Len(data'[Tmp']) = proc'[r].written
        /\ \A i \in 1..proc'[r].written : data'[Tmp'][i] = proc'[r].builtAt
    BY <1>2, <1>3, <1>5, <1>6, <1>7
  <2>3. /\ proc'[r].pc \in {"write", "rename"}
        /\ proc'[r].pc = "write" => proc'[r].written < Part
        /\ proc'[r].pc = "rename" => proc'[r].written = Part
    BY <1>3, <1>5, ManifestAssumption
  <2> QED BY <2>1, <2>2, <2>3 DEF Writing
<1>12. PublishedWhole'
  <2>1. Json # None => data'[Json] = data[Json]
    BY <1>1, <1>3, <1>7 DEF PublishedWhole, TypeOK, Json, Name
  <2> QED BY <2>1, <1>1, <1>2, <1>9 DEF PublishedWhole, Whole
<1> QED BY <1>8, <1>10, <1>11, <1>12 DEF MInv

\* The rename takes the temp file, which its only writer has completed.
LEMMA RenameStep ==
    ASSUME MInv, NEW r \in Runner, Rename(r)
    PROVE  /\ Json' = Tmp /\ Tmp \in Inode /\ Tmp' = None
           /\ data' = data /\ clock' = clock
           /\ proc' = [proc EXCEPT ![r] = Idle]
           /\ Whole(data[Tmp]) /\ data[Tmp][1] = clock /\ clock # 0
           /\ \A q \in Runner : ~Busy(q)'
<1>1. TypeOK /\ Alone /\ Writing /\ PublishedWhole /\ proc[r].pc = "rename"
  BY DEF MInv, Rename
<1>2. /\ Tmp \in Inode /\ Len(data[Tmp]) = Part
      /\ \A i \in 1..Part : data[Tmp][i] = proc[r].builtAt
  BY <1>1 DEF Writing
<1>3. Busy(r) /\ proc[r].builtAt = clock /\ clock # 0
  BY <1>1 DEF Busy, Alone
<1>4. 1 \in 1..Part
  BY ManifestAssumption
<1>5. Tmp # None
  BY <1>2, ManifestAssumption
<1>6. /\ entry' = [n \in Name |-> IF n = "MANIFEST.json" THEN Tmp ELSE None]
      /\ proc' = [proc EXCEPT ![r] = Idle]
      /\ data' = data /\ clock' = clock
  BY <1>5 DEF Rename, Tmp
<1>7. proc'[r] = Idle /\ \A q \in Runner : q # r => proc'[q] = proc[q]
  BY <1>1, <1>6, OthersKept
<1>8. \A q \in Runner : ~Busy(q)'
  BY <1>1, <1>3, <1>7 DEF Alone, Busy, Idle
<1> QED BY <1>2, <1>3, <1>4, <1>6, <1>8 DEF Whole, Json, Tmp, Name

\* ... so the invariant holds of the new file.
LEMMA RenameMInv ==
    ASSUME MInv, NEW r \in Runner, Rename(r)
    PROVE  MInv'
<1>1. TypeOK /\ Alone /\ Writing
  BY DEF MInv
<1>2. /\ Json' = Tmp /\ Tmp \in Inode /\ Tmp' = None
      /\ data' = data /\ clock' = clock
      /\ proc' = [proc EXCEPT ![r] = Idle]
      /\ Whole(data[Tmp]) /\ data[Tmp][1] = clock /\ clock # 0
      /\ \A q \in Runner : ~Busy(q)'
  BY RenameStep
<1>3. proc'[r] = Idle /\ \A q \in Runner : q # r => proc'[q] = proc[q]
  BY <1>1, <1>2, OthersKept
<1>4. TypeOK'
  <2>1. entry' \in [Name -> Inode \cup {None}]
    BY <1>1 DEF Rename, TypeOK, Name
  <2> QED BY <2>1, <1>1, <1>2, IdleTyped DEF TypeOK
<1>5. Alone'
  BY <1>2 DEF Alone
<1>6. Writing'
  BY <1>1, <1>2, <1>3 DEF Writing, Busy, Idle
<1>7. PublishedWhole'
  <2>1. Json' # Tmp'
    BY <1>2, ManifestAssumption
  <2>2. data'[Json'] = data[Tmp]
    BY <1>2
  <2>3. Whole(data'[Json'])
    BY <1>2, <2>2
  <2>4. clock \in Nat /\ data'[Json'][1] = clock /\ clock # 0
    BY <1>1, <1>2, <2>2 DEF TypeOK
  <2>5. data'[Json'][1] # 0 /\ data'[Json'][1] <= clock'
    BY <1>2, <2>4
  <2> QED BY <1>2, <2>1, <2>3, <2>5 DEF PublishedWhole, Whole
<1> QED BY <1>4, <1>5, <1>6, <1>7 DEF MInv

\* A kill leaves the temp file behind; nothing that is published changes.
LEMMA CrashMInv ==
    ASSUME MInv, NEW r \in Runner, Crash(r)
    PROVE  MInv'
<1>1. TypeOK /\ Alone /\ Writing /\ PublishedWhole
  BY DEF MInv
<1>2. UNCHANGED <<clock, entry, data>> /\ Json' = Json /\ Tmp' = Tmp
  BY DEF Crash, Json, Tmp
<1>3. proc'[r] = Idle /\ \A q \in Runner : q # r => proc'[q] = proc[q]
  BY <1>1, OthersKept DEF Crash
<1>4. TypeOK'
  BY <1>1, <1>2, IdleTyped DEF TypeOK, Crash
<1>5. \A q \in Runner : Busy(q)' => Busy(q) /\ proc'[q] = proc[q]
  BY <1>3 DEF Busy, Idle
<1>6. Alone'
  BY <1>1, <1>2, <1>5 DEF Alone
<1>7. Writing'
  BY <1>1, <1>2, <1>3 DEF Writing, Idle
<1>8. PublishedWhole'
  BY <1>1, <1>2, <1>5 DEF PublishedWhole, Whole
<1> QED BY <1>4, <1>6, <1>7, <1>8 DEF MInv

\* Every step keeps the invariant.
LEMMA NextMInv ==
    ASSUME ~Overlap, MInv, [Next]_vars
    PROVE  MInv'
<1>1. CASE UNCHANGED vars
  BY <1>1 DEF vars, MInv, TypeOK, Alone, Writing, PublishedWhole, Busy, Json,
     Tmp, Whole
<1>2. CASE Next
  BY <1>2, BeginMInv, OpenTmpMInv, WritePartMInv, RenameMInv, CrashMInv DEF Next
<1> QED BY <1>1, <1>2

\* What a reader sees is the manifest under its name, which is whole.
LEMMA SeesWhole ==
    ASSUME MInv
    PROVE  Published = IF Json = None THEN None ELSE data[Json][1]
BY DEF MInv, PublishedWhole, Published, Json

\* A rename publishes something newer; every other step changes nothing a
\* reader sees.
LEMMA StepPublishes ==
    ASSUME ~Overlap, MInv, MInv', [Next]_vars
    PROVE  [Register!Publish]_Published
<1>1. /\ Published = IF Json = None THEN None ELSE data[Json][1]
      /\ Published' = IF Json' = None THEN None ELSE data'[Json'][1]
  <2>1. Published' = IF Json' = None THEN None ELSE data'[Json'][1]
    BY DEF MInv, PublishedWhole, Published, Json
  <2> QED BY <2>1, SeesWhole
<1>2. TypeOK /\ PublishedWhole /\ Alone
  BY DEF MInv
<1>3. ASSUME NEW r \in Runner, Rename(r)
      PROVE  Register!Publish
  <2>1. /\ Json' = Tmp /\ Tmp \in Inode /\ data' = data
        /\ data[Tmp][1] = clock /\ clock # 0
    BY <1>3, RenameStep
  <2>2. Published' = clock /\ clock \in Nat \ {0}
    BY <2>1, <1>1, <1>2, ManifestAssumption DEF TypeOK
  <2>3. Busy(r)
    BY <1>3 DEF Rename, Busy
  <2>4. Published = None \/ Published < Published'
    BY <2>2, <2>3, <1>1, <1>2 DEF PublishedWhole
  <2> QED BY <2>2, <2>4 DEF Register!Publish
<1>4. ASSUME NEW r \in Runner, OpenTmp(r)
      PROVE  Published' = Published
  <2>1. PICK i \in Inode :
          /\ IF Tmp = None THEN Free(i) ELSE i = Tmp
          /\ data' = [data EXCEPT ![i] = <<>>]
          /\ entry' = [entry EXCEPT !["MANIFEST.json.tmp"] = i]
    BY <1>4 DEF OpenTmp, Tmp
  <2>2. Json' = Json
    BY <2>1, <1>2 DEF Json, TypeOK, Name
  <2>3. Json # None => i # Json
    BY <2>1, <1>2 DEF Free, Json, Tmp, Name, PublishedWhole
  <2>4. Json # None => data'[Json] = data[Json]
    BY <2>1, <2>3, <1>2 DEF TypeOK, Json, Name
  <2> QED BY <2>2, <2>4, <1>1
<1>5. ASSUME NEW r \in Runner, WritePart(r)
      PROVE  Published' = Published
  <2>1. Json' = Json /\ Tmp' = Tmp /\ proc[r].pc = "write"
    BY <1>5 DEF WritePart, Json, Tmp
  <2>2. proc[r].fd = Tmp
    BY <2>1 DEF MInv, Writing
  <2>3. Json # None => data'[Json] = data[Json]
    BY <1>5, <2>2, <1>2 DEF WritePart, PublishedWhole, TypeOK, Json, Name
  <2> QED BY <2>1, <2>3, <1>1
<1>6. ASSUME NEW r \in Runner, Begin(r) \/ Crash(r)
      PROVE  Published' = Published
  BY <1>6, <1>1 DEF Begin, Crash, Json
<1>7. CASE UNCHANGED vars
  BY <1>7, <1>1 DEF vars, Json
<1> QED BY <1>3, <1>4, <1>5, <1>6, <1>7 DEF Next

(***************************************************************************)
(* One ensure at a time keeps the types of the files and descriptors.      *)
(* (bridge_cache.rs:88-94)                                                 *)
(***************************************************************************)
THEOREM ManifestTypes ==
    ASSUME ~Overlap PROVE Spec => []TypeOK
<1>1. Init => MInv
  BY InitMInv
<1>2. MInv /\ [Next]_vars => MInv'
  BY NextMInv
<1>3. MInv => TypeOK
  BY DEF MInv
<1> QED BY <1>1, <1>2, <1>3, PTL DEF Spec

(***************************************************************************)
(* As long as no two ensures overlap, MANIFEST.json is overwritten         *)
(* atomically: temp file and rename implement the register, whatever       *)
(* killed invocations have left.  (bridge_cache.rs:88-94)                  *)
(***************************************************************************)
THEOREM SerialEnsureIsAtomic ==
    ASSUME ~Overlap PROVE Spec => OverwritesAtomically
<1>1. Init => MInv
  BY InitMInv
<1>2. MInv /\ [Next]_vars => MInv'
  BY NextMInv
<1>3. Init => Register!Init
  BY DEF Init, Register!Init, Published, Name
<1>4. MInv /\ MInv' /\ [Next]_vars => [Register!Publish]_Published
  BY StepPublishes
<1> QED BY <1>1, <1>2, <1>3, <1>4, PTL
        DEF Spec, OverwritesAtomically, Register!Spec

(***************************************************************************)
(* ... and a manifest that has been published stays whole: the comment     *)
(* "atomic overwrite" is true of every execution without overlap.          *)
(* (bridge_cache.rs:90-91)                                                 *)
(***************************************************************************)
THEOREM SerialManifestIsWhole ==
    ASSUME ~Overlap PROVE Spec => []ManifestIsWhole
<1>1. Init => MInv
  BY InitMInv
<1>2. MInv /\ [Next]_vars => MInv'
  BY NextMInv
<1>3. MInv => ManifestIsWhole
  BY SeesWhole, ManifestAssumption DEF MInv, PublishedWhole, ManifestIsWhole
<1> QED BY <1>1, <1>2, <1>3, PTL DEF Spec
=============================================================================
