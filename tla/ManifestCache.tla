---------------------------- MODULE ManifestCache ----------------------------
(***************************************************************************)
(* The end of bridge_cache::ensure: MANIFEST.json of one <function, sig8,  *)
(* impl8> is overwritten through the sibling MANIFEST.json.tmp, whose name *)
(* all invocations share.  A step is one system call of fs::write (open    *)
(* with truncation, one write per part) or fs::rename; the file system     *)
(* keeps names and inodes apart, as POSIX does.                            *)
(***************************************************************************)
EXTENDS Naturals, Sequences

CONSTANTS
    Runner,         \* processes that run `test-fn run` on the function
    Inode,          \* enough that an unused one is always found
    Part,           \* how many writes a manifest takes
    Overlap,        \* whether two ensures may overlap in time
    MaxBuilt,       \* bound on the number of ensures
    None

ASSUME ManifestAssumption ==
    /\ Part \in Nat \ {0} /\ MaxBuilt \in Nat
    /\ Overlap \in BOOLEAN
    /\ None \notin Inode /\ None \notin Nat

VARIABLES
    clock,          \* built_at of the latest ensure
    entry,          \* directory: name -> inode or None
    data,           \* inode -> the parts in it; 0 is a hole
    proc            \* runner -> [pc, builtAt, fd, written]

vars == <<clock, entry, data, proc>>

Name == {"MANIFEST.json", "MANIFEST.json.tmp"}

Idle == [pc |-> "idle", builtAt |-> 0, fd |-> None, written |-> 0]

TypeOK ==
    /\ clock \in Nat
    /\ entry \in [Name -> Inode \cup {None}]
    /\ data \in [Inode -> Seq(Nat)]
    /\ proc \in [Runner -> [pc: {"idle", "open", "write", "rename", "failed"},
                            builtAt: Nat, fd: Inode \cup {None},
                            written: 0..Part]]

Init ==
    /\ clock = 0
    /\ entry = [n \in Name |-> None]
    /\ data = [i \in Inode |-> <<>>]
    /\ proc = [r \in Runner |-> Idle]

Free(i) ==
    /\ i \notin {entry[n] : n \in Name}
    /\ \A r \in Runner : proc[r].fd # i

Busy(r) == proc[r].pc \in {"open", "write", "rename"}

\* create_dir_all, and the manifest is put together.
Begin(r) ==
    /\ ~Busy(r) /\ clock < MaxBuilt
    /\ Overlap \/ \A q \in Runner : ~Busy(q)
    /\ clock' = clock + 1
    /\ proc' = [proc EXCEPT ![r] = [Idle EXCEPT !.pc = "open", !.builtAt = clock + 1]]
    /\ UNCHANGED <<entry, data>>

\* Mutant of OpenTmp: the manifest itself is opened and truncated.
OpenInPlace(r) ==
    /\ proc[r].pc = "open"
    /\ \E i \in Inode :
        /\ IF entry["MANIFEST.json"] = None
           THEN Free(i) ELSE i = entry["MANIFEST.json"]
        /\ data' = [data EXCEPT ![i] = <<>>]
        /\ entry' = [entry EXCEPT !["MANIFEST.json"] = i]
        /\ proc' = [proc EXCEPT ![r].pc = "write", ![r].fd = i]
    /\ UNCHANGED clock

\* fs::write opens the temp file, truncating one that is there.
OpenTmp(r) ==
    /\ proc[r].pc = "open"
    /\ \E i \in Inode :
        /\ IF entry["MANIFEST.json.tmp"] = None
           THEN Free(i) ELSE i = entry["MANIFEST.json.tmp"]
        /\ data' = [data EXCEPT ![i] = <<>>]
        /\ entry' = [entry EXCEPT !["MANIFEST.json.tmp"] = i]
        /\ proc' = [proc EXCEPT ![r].pc = "write", ![r].fd = i]
    /\ UNCHANGED clock

\* Mutant of WritePart: one write too many.
WritePartBeyond(r) ==
    /\ proc[r].pc = "write"
    /\ LET at == proc[r].written + 1 IN
       /\ data' = [data EXCEPT ![proc[r].fd] = Append(@, proc[r].builtAt)]
       /\ proc' = [proc EXCEPT ![r].written = at,
                      ![r].pc = IF at > Part THEN "rename" ELSE "write"]
    /\ UNCHANGED <<clock, entry>>

\* A write at the descriptor's own offset: it fills what a truncation by
\* somebody else took away with a hole.
WritePart(r) ==
    /\ proc[r].pc = "write"
    /\ LET at == proc[r].written + 1
           old == data[proc[r].fd]
           len == IF Len(old) < at THEN at ELSE Len(old)
           new == [i \in 1..len |-> IF i = at THEN proc[r].builtAt
                                    ELSE IF i <= Len(old) THEN old[i] ELSE 0]
       IN /\ data' = [data EXCEPT ![proc[r].fd] = new]
          /\ proc' = [proc EXCEPT ![r].written = at,
                         ![r].pc = IF at = Part THEN "rename" ELSE "write"]
    /\ UNCHANGED <<clock, entry>>

\* fs::write has closed the file; rename replaces the name, and fails when
\* the temp file is gone.
Rename(r) ==
    /\ proc[r].pc = "rename"
    /\ IF entry["MANIFEST.json.tmp"] = None
       THEN /\ proc' = [proc EXCEPT ![r] = [Idle EXCEPT !.pc = "failed"]]
            /\ UNCHANGED entry
       ELSE /\ entry' = [n \in Name |-> IF n = "MANIFEST.json"
                                        THEN entry["MANIFEST.json.tmp"] ELSE None]
            /\ proc' = [proc EXCEPT ![r] = Idle]
    /\ UNCHANGED <<clock, data>>

\* The process is killed, or a call fails: the temp file stays behind.
Crash(r) ==
    /\ Busy(r)
    /\ proc' = [proc EXCEPT ![r] = Idle]
    /\ UNCHANGED <<clock, entry, data>>

Next ==
    \E r \in Runner :
        Begin(r) \/ OpenTmp(r) \/ WritePart(r) \/ Rename(r) \/ Crash(r)

Spec == Init /\ [][Next]_vars
-----------------------------------------------------------------------------

Whole(file) == Len(file) = Part /\ \A i \in 1..Part : file[i] = file[1]

\* What a reader of MANIFEST.json finds: 0 is no manifest at all.
Published ==
    LET i == entry["MANIFEST.json"] IN
    IF i = None THEN None ELSE IF Whole(data[i]) THEN data[i][1] ELSE 0

(***************************************************************************)
(* One invocation at a time overwrites the manifest atomically, whatever a *)
(* killed predecessor left in the temp file.  (bridge_cache.rs:88-94)      *)
(***************************************************************************)
Register == INSTANCE ManifestRegister WITH published <- Published

OverwritesAtomically == Register!Spec

(***************************************************************************)
(* bridge_cache.rs:90-91 calls the replacement an "atomic overwrite": a    *)
(* manifest that has been published is whole.                              *)
(***************************************************************************)
ManifestIsWhole == Published # 0
=============================================================================
