--------------------------- MODULE MinijailConfig ---------------------------
(***************************************************************************)
(* NewMinijail and minijail.Cleanup, the config-file version of cifuzz's   *)
(* sandbox wrapper (src/unnamed/part_002, package minijail). NewMinijail    *)
(* creates a chroot directory, collects the bindings (sub-directories of    *)
(* /tmp, opts.Bindings, the default bindings, the output directory, the    *)
(* working directory, the executable and process_wrapper), and for every    *)
(* binding whose source exists creates its target in the chroot and        *)
(* appends a "bind-mount=" line to the package-level minijailConfigLines,   *)
(* which it then writes to <chroot>/minijail.conf.                          *)
(*                                                                          *)
(* Calls are numbered 1..MaxCalls and run one after the other. Paths are    *)
(* model values; a binding is a record, and its text form (Binding.String)  *)
(* is the subject of module MinijailBinding. An error return is a choice    *)
(* of the step that fails.                                                  *)
(***************************************************************************)
EXTENDS Naturals, Sequences, FiniteSets

CONSTANTS
    Paths,       \* host paths
    NoPath,      \* Binding.Target == ""; opts.OutputDir == ""
    Exists,      \* the host paths that exist
    TmpNames,    \* names of the sub-directories of /tmp
    TmpPath,     \* TmpPath[n]: the path /tmp/<n>
    TmpConcat,   \* TmpConcat[n]: the path "/tmp" + n, without a separator
    DevNull, DevUrandom, Workdir, Exe, Wrapper,
    OptsChoices, \* the Options a caller may pass: [bindings, outputDir]
    MaxCalls     \* bound on the number of NewMinijail calls

Binding == [src : Paths, tgt : Paths \cup {NoPath}, rw : BOOLEAN]

ASSUME MinijailAssumption ==
    /\ NoPath \notin Paths
    /\ Exists \subseteq Paths
    /\ TmpPath \in [TmpNames -> Paths]
    /\ TmpConcat \in [TmpNames -> Paths]
    /\ {DevNull, DevUrandom, Workdir, Exe, Wrapper} \subseteq Paths
    /\ OptsChoices \subseteq [bindings : Seq(Binding),
                              outputDir : Paths \cup {NoPath}]
    /\ MaxCalls \in Nat

Calls == 1..MaxCalls

\* Where NewMinijail can fail, in the order of its steps.
FailPoints == {"evalSymlinks", "mkdirTemp", "mkdirs", "minijailPath",
               "readTmp", "getwd", "wrapperPath", "bindLoop", "writeConfig"}

VARIABLES
    configLines,  \* the package-level minijailConfigLines (bind-mounts)
    calls,        \* number of NewMinijail calls made
    result,       \* result[k]: "none", "failed" or "ok"
    own,          \* own[k]: the existing bindings call k collected
    config,       \* config[k]: bind-mount lines of call k's minijail.conf
    outDir,       \* outDir[k]: the opts.OutputDir of call k
    chroot        \* chroot[k]: "none", "exists" or "removed"

vars == <<configLines, calls, result, own, config, outDir, chroot>>

\* The bind-mount lines written: a binding with its target defaulted.
Line == [src : Paths, tgt : Paths, rw : BOOLEAN]

TypeOK ==
    /\ configLines \in Seq(Line)
    /\ calls \in 0..MaxCalls
    /\ result \in [Calls -> {"none", "failed", "ok"}]
    /\ own \in [Calls -> Seq(Line)]
    /\ config \in [Calls -> Seq(Line)]
    /\ outDir \in [Calls -> Paths \cup {NoPath}]
    /\ chroot \in [Calls -> {"none", "exists", "removed"}]

\* The package is loaded: minijailConfigLines holds the fixed mount lines
\* only, which are not bind-mounts.
Init ==
    /\ configLines = <<>>
    /\ calls = 0
    /\ result = [k \in Calls |-> "none"]
    /\ own = [k \in Calls |-> <<>>]
    /\ config = [k \in Calls |-> <<>>]
    /\ outDir = [k \in Calls |-> NoPath]
    /\ chroot = [k \in Calls |-> "none"]

\* Mutant of WithTarget: the loop forgets to default an empty target.
WithTargetKept(b) == b

\* A binding with an empty target is mounted at its source.
WithTarget(b) ==
    [src |-> b.src, tgt |-> IF b.tgt = NoPath THEN b.src ELSE b.tgt,
     rw |-> b.rw]

RO(p) == [src |-> p, tgt |-> NoPath, rw |-> FALSE]
RW(p) == [src |-> p, tgt |-> NoPath, rw |-> TRUE]

\* The sub-directories of /tmp, each as &Binding{Source: "/tmp" +
\* entry.Name()}. The chroot directories of earlier calls are entries of
\* /tmp as well; they are dropped below, as "/tmp" + their name never
\* exists.
TmpBindings ==
    LET names == CHOOSE s \in [1..Cardinality(TmpNames) -> TmpNames] :
                    \A n \in TmpNames : \E j \in DOMAIN s : s[j] = n
    IN [j \in DOMAIN names |-> RO(TmpConcat[names[j]])]

\* Mutant of AllBindings: opts.Bindings appended after the bindings
\* NewMinijail adds itself, instead of before them.
AllBindingsOptsLast(o) ==
    TmpBindings \o <<RW(DevNull), RW(DevUrandom)>>
    \o (IF o.outputDir # NoPath THEN <<RW(o.outputDir)>> ELSE <<>>)
    \o <<RW(Workdir)>> \o o.bindings \o <<RO(Exe), RO(Wrapper)>>

\* All bindings of a call in the order NewMinijail appends them.
AllBindings(o) ==
    TmpBindings \o o.bindings \o <<RW(DevNull), RW(DevUrandom)>>
    \o (IF o.outputDir # NoPath THEN <<RW(o.outputDir)>> ELSE <<>>)
    \o <<RW(Workdir), RO(Exe), RO(Wrapper)>>

\* The loop over the bindings: the target is defaulted, and a binding whose
\* source does not exist is skipped.
Mounted(o) ==
    LET bs == [j \in DOMAIN AllBindings(o) |-> WithTarget(AllBindings(o)[j])]
    IN SelectSeq(bs, LAMBDA b : b.src \in Exists)

-----------------------------------------------------------------------------
(* The calls.                                                               *)

\* NewMinijail returns a sandbox: every mounted binding was appended to the
\* package-level lines, and the config file holds all of them.
NewMinijailOk ==
    /\ calls < MaxCalls
    /\ \E o \in OptsChoices :
          LET k == calls + 1
              lines == Mounted(o)
          IN /\ calls' = k
             /\ configLines' = configLines \o lines
             /\ own' = [own EXCEPT ![k] = lines]
             /\ config' = [config EXCEPT ![k] = configLines \o lines]
             /\ outDir' = [outDir EXCEPT ![k] = o.outputDir]
             /\ result' = [result EXCEPT ![k] = "ok"]
             /\ chroot' = [chroot EXCEPT ![k] = "exists"]

\* NewMinijail returns nil and an error from one of its steps. The chroot
\* directory exists once os.MkdirTemp succeeded and is not removed on any
\* error path. A failure inside the binding loop (fileutil.Exists,
\* MkdirAll, Touch) comes after the lines of the bindings before it were
\* appended; a failing os.WriteFile after all of them were.
NewMinijailFails ==
    /\ calls < MaxCalls
    /\ \E o \in OptsChoices, f \in FailPoints :
          LET k == calls + 1
              lines == Mounted(o)
          IN /\ calls' = k
             /\ \/ f \notin {"bindLoop", "writeConfig"}
                   /\ UNCHANGED configLines
                \/ f = "bindLoop"
                   /\ \E j \in 0..(Len(lines) - 1) :
                         configLines' = configLines \o SubSeq(lines, 1, j)
                \/ f = "writeConfig"
                   /\ configLines' = configLines \o lines
             /\ outDir' = [outDir EXCEPT ![k] = o.outputDir]
             /\ result' = [result EXCEPT ![k] = "failed"]
             /\ chroot' = [chroot EXCEPT ![k] =
                             IF f \in {"evalSymlinks", "mkdirTemp"}
                             THEN "none" ELSE "exists"]
             /\ UNCHANGED <<own, config>>

\* minijail.Cleanup removes the chroot directory of a sandbox.
Cleanup ==
    /\ \E k \in Calls :
          /\ result[k] = "ok"
          /\ chroot[k] = "exists"
          /\ chroot' = [chroot EXCEPT ![k] = "removed"]
    /\ UNCHANGED <<configLines, calls, result, own, config, outDir>>

Next ==
    \/ NewMinijailOk
    \/ NewMinijailFails
    \/ Cleanup

Spec == Init /\ [][Next]_vars

-----------------------------------------------------------------------------
(* Properties.                                                              *)

\* Whether target t is writable in the sandbox of config lines s: minijail
\* applies the bind-mounts in order, so the last one at t decides.
LastWritable(s, t) ==
    LET J == {j \in DOMAIN s : s[j].tgt = t}
    IN J # {} /\ s[CHOOSE j \in J : \A m \in J : j >= m].rw

\* The comment at part_002:244-245 and the RW bindings after it: in every
\* sandbox NewMinijail returns, /dev/null, /dev/urandom, the working
\* directory and the output directory are writable, whatever read-only
\* bindings the caller passed and whatever earlier calls left in the
\* package-level lines.
RequiredPathsWritable ==
    \A k \in Calls :
        result[k] = "ok" =>
            \A t \in ({DevNull, DevUrandom, Workdir} \cup
                      ({outDir[k]} \ {NoPath})) \cap Exists :
                LastWritable(config[k], t)

\* Spec 4.2 and 9 (global state): a config file enumerates the bindings
\* requested for that sandbox, and the only process-wide state is the
\* bindings variable; so it holds the bind-mounts of that sandbox only. minijailConfigLines is a package variable that every call
\* appends to.
OwnBindingsOnly ==
    \A k \in Calls : result[k] = "ok" => config[k] = own[k]

\* Spec 4.2 (a) and the comment at part_002:237-241: every existing
\* sub-directory of /tmp is bind-mounted into the sandbox. The source is
\* built as "/tmp" + entry.Name().
TmpSubdirsBound ==
    \A k \in Calls : result[k] = "ok" =>
        \A n \in TmpNames : TmpPath[n] \in Exists =>
            \E j \in DOMAIN config[k] : config[k][j].src = TmpPath[n]

=============================================================================
