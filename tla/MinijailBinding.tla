-------------------------- MODULE MinijailBinding --------------------------
(***************************************************************************)
(* How bindings reach the legacy sandbox (src/unnamed/part_003, package    *)
(* minijail) through the variable CIFUZZ_MINIJAIL_BINDINGS:                 *)
(*   AddMinijailBindingDeprecated(path, writable) appends                   *)
(*     "<EvalSymlinks(path)>,<path>,<0|1>" to the process environment       *)
(*     (os.Getenv / os.Setenv), ':'-separated;                              *)
(*   AddMinijailBindingToEnv(env, binding) appends binding.String() to the  *)
(*     variable in the environment list env (envutil);                      *)
(*   NewMinijail reads os.Getenv, splits at ':', skips empty fields, and    *)
(*   parses every field with BindingFromString (strings.SplitN(s, ",", 3)   *)
(*   and strconv.Atoi of the third token); it adds them to the caller's,    *)
(*   the default and its own bindings, fills in missing targets, sorts the  *)
(*   list by target and passes every binding whose source exists as "-b".   *)
(* The property is about the text, so a path is a sequence of characters   *)
(* and the formatting and parsing are modelled by what they do.            *)
(***************************************************************************)
EXTENDS Integers, Sequences, SequencesExt

CONSTANTS
    Paths,      \* paths, each a sequence of one-character strings
    AddPaths,   \* the paths the adapters add bindings for
    Resolve,    \* Resolve[p]: filepath.EvalSymlinks(p)
    MaxAdds,    \* bound on the number of bindings added
    Exists,     \* the paths that exist on the host
    Defaults,   \* the package-level defaultBindings
    Workdir,    \* os.Getwd()
    Exe,        \* EvalSymlinks(opts.Args[0])
    Llvm,       \* the LLVM directory holding llvm-symbolizer
    Wrapper,    \* runfiles.Finder.ProcessWrapperPath()
    OptsChoices \* the opts.Bindings a caller may pass

\* WritableOption: ReadOnly = 0, ReadWrite = 1. A Target of "" is <<>>.
Bindings == [src : Paths, tgt : Paths \cup {<<>>}, w : {0, 1}]

Chars == {"/", "a", "b", ",", ":", "0", "1"}

\* What BindingFromString may return: any text in either field.
Parsed == [src : Seq(Chars), tgt : Seq(Chars), w : {0, 1}]

ASSUME BindingAssumption ==
    /\ Paths \subseteq Seq({"/", "a", "b", ",", ":"}) \ {<<>>}
    /\ AddPaths \subseteq Paths
    /\ Resolve \in [AddPaths -> Paths]
    /\ MaxAdds \in Nat
    /\ Exists \subseteq Paths
    /\ Defaults \in Seq(Bindings)
    /\ {Workdir, Exe, Llvm, Wrapper} \subseteq Paths
    /\ OptsChoices \subseteq Seq(Bindings)

\* Where the legacy NewMinijail returns an error before it reads the
\* variable: EvalSymlinks and MkdirTemp (no chroot directory yet), then
\* the MkdirAll calls, Minijail0Path, Getwd, LLVMSymbolizerPath and
\* ProcessWrapperPath.
NoChrootFailures == {"evalSymlinks", "mkdirTemp"}

ChrootFailures == {"mkdirOutput", "mkdirs", "minijailPath", "getwd",
                   "llvmPath", "wrapperPath"}

VARIABLES
    osEnv,      \* CIFUZZ_MINIJAIL_BINDINGS in the process environment
    listEnv,    \* CIFUZZ_MINIJAIL_BINDINGS in the caller's env list
    viaOs,      \* the bindings added to the process environment, in order
    viaList,    \* the bindings added to the env list, in order
    parsed,     \* the bindings NewMinijail parsed; <<>> before and on failure
    failed,     \* NewMinijail returned BindingFromString's error
    read,       \* NewMinijail has read the variable
    result,     \* what NewMinijail returned: "none", "ok" or "failed"
    chroot,     \* the chroot directory: "none", "exists" or "removed"
    opts,       \* the opts.Bindings of the call
    args        \* the bindings passed as "-b", in order

vars == <<osEnv, listEnv, viaOs, viaList, parsed, failed, read, result,
          chroot, opts, args>>

\* Mutant of WithTarget: the fill-in loop is lost and an empty target
\* reaches the "-b" argument.
WithTargetKept(b) == b

\* A binding as NewMinijail uses it: the missing target filled in.
WithTarget(b) == [b EXCEPT !.tgt = IF b.tgt = <<>> THEN b.src ELSE b.tgt]

TypeOK ==
    /\ osEnv \in Seq(Chars)
    /\ listEnv \in Seq(Chars)
    /\ viaOs \in Seq(Bindings)
    /\ viaList \in Seq(Bindings)
    /\ parsed \in Seq(Parsed)
    /\ failed \in BOOLEAN
    /\ read \in BOOLEAN
    /\ result \in {"none", "ok", "failed"}
    /\ chroot \in {"none", "exists", "removed"}
    /\ opts \in Seq(Bindings)
    /\ args \in Seq([src : Paths, tgt : Seq(Chars) \ {<<>>}, w : {0, 1}])

Init ==
    /\ osEnv = <<>>
    /\ listEnv = <<>>
    /\ viaOs = <<>>
    /\ viaList = <<>>
    /\ parsed = <<>>
    /\ failed = FALSE
    /\ read = FALSE
    /\ result = "none"
    /\ chroot = "none"
    /\ opts = <<>>
    /\ args = <<>>

-----------------------------------------------------------------------------
(* Text.                                                                    *)

HasChar(s, c) == \E i \in DOMAIN s : s[i] = c

\* The fields of s between the first n - 1 occurrences of c
\* (strings.SplitN(s, c, n)); n = 0 means every occurrence
\* (strings.Split).
SplitN(s, c, n) ==
    LET all  == SetToSortSeq({i \in DOMAIN s : s[i] = c}, <)
        cuts == IF n = 0 \/ Len(all) < n THEN all ELSE SubSeq(all, 1, n - 1)
        at(j) == IF j = 0 THEN 0 ELSE IF j > Len(cuts) THEN Len(s) + 1
                 ELSE cuts[j]
    IN [j \in 1..(Len(cuts) + 1) |-> SubSeq(s, at(j - 1) + 1, at(j) - 1)]

\* Fields joined with the separator c.
Join(a, c, b) == IF a = <<>> THEN b ELSE a \o <<c>> \o b

\* strconv.Itoa of a WritableOption, and strconv.Atoi back.
Itoa(w) == IF w = 1 THEN <<"1">> ELSE <<"0">>

\* Atoi's error is -1 here: a WritableOption is never negative. A
\* BindingFromString error is a result whose w is -1.
Atoi(t) == IF t = <<"1">> THEN 1 ELSE IF t = <<"0">> THEN 0 ELSE -1


\* Mutant of String: the short form is used whenever the binding is read
\* only and has no comma, dropping the source-target distinction.
StringShortForm(b) ==
    LET t == IF b.tgt = <<>> THEN b.src ELSE b.tgt
    IN IF b.w = 1 THEN b.src \o <<",">> \o t \o <<",", "1">>
       ELSE IF HasChar(b.src, ",") \/ HasChar(t, ",")
            THEN b.src \o <<",">> \o t \o <<",", "0">>
       ELSE b.src

\* Binding.String: "src,tgt,1" when writable; "src,tgt,0" when a path
\* holds a comma; "src,tgt" when they differ; else "src". It first sets an
\* empty Target to the Source.
String(b) ==
    LET t == IF b.tgt = <<>> THEN b.src ELSE b.tgt
    IN IF b.w = 1 THEN b.src \o <<",">> \o t \o <<",", "1">>
       ELSE IF HasChar(b.src, ",") \/ HasChar(t, ",")
            THEN b.src \o <<",">> \o t \o <<",", "0">>
       ELSE IF b.src # t THEN b.src \o <<",">> \o t
       ELSE b.src

\* BindingFromString: one token is source and target; two are source and
\* target; three are source, target and Atoi(writable).
FromString(s) ==
    LET tk == SplitN(s, ",", 3)
    IN CASE Len(tk) = 1 -> [src |-> tk[1], tgt |-> tk[1], w |-> 0]
         [] Len(tk) = 2 -> [src |-> tk[1], tgt |-> tk[2], w |-> 0]
         [] OTHER -> [src |-> tk[1], tgt |-> tk[2], w |-> Atoi(tk[3])]

-----------------------------------------------------------------------------
(* Actions. Adapters add bindings before the sandbox is created.            *)

\* AddMinijailBindingDeprecated: getMinijailBinding formats
\* "<EvalSymlinks(path)>,<path>,<0|1>" (a path that does not resolve is an
\* error and changes nothing), appended to the process environment.
AddMinijailBindingDeprecated ==
    /\ result = "none"
    /\ Len(viaOs) + Len(viaList) < MaxAdds
    /\ \E p \in AddPaths, w \in {0, 1} :
          /\ osEnv' = Join(osEnv, ":",
                           Resolve[p] \o <<",">> \o p \o <<",">> \o Itoa(w))
          /\ viaOs' = Append(viaOs, [src |-> Resolve[p], tgt |-> p, w |-> w])
    /\ UNCHANGED <<listEnv, viaList, parsed, failed, read, result, chroot, opts,
                   args>>

\* AddMinijailBindingToEnv: binding.String() appended to the variable in
\* the env list.
AddMinijailBindingToEnv ==
    /\ result = "none"
    /\ Len(viaOs) + Len(viaList) < MaxAdds
    /\ \E b \in [src : AddPaths, tgt : AddPaths \cup {<<>>}, w : {0, 1}] :
          /\ listEnv' = Join(listEnv, ":", String(b))
          /\ viaList' = Append(viaList, WithTarget(b))
    /\ UNCHANGED <<osEnv, viaOs, parsed, failed, read, result, chroot, opts,
                   args>>

\* The caller makes the env list the process environment (os.Setenv of
\* the list's value), so that NewMinijail sees those bindings.
ExportEnvList ==
    /\ result = "none"
    /\ listEnv # <<>>
    /\ osEnv' = listEnv
    /\ viaOs' = viaList
    /\ UNCHANGED <<listEnv, viaList, parsed, failed, read, result, chroot, opts,
                   args>>

\* The byte values of the characters, for Go's string comparison.
Byte == ("," :> 44) @@ ("/" :> 47) @@ ("0" :> 48) @@ ("1" :> 49)
        @@ (":" :> 58) @@ ("a" :> 97) @@ ("b" :> 98)

\* s < t for Go strings: byte-wise, a proper prefix first.
LexLess(s, t) ==
    \E k \in 0..Len(s) :
        /\ k <= Len(t)
        /\ SubSeq(s, 1, k) = SubSeq(t, 1, k)
        /\ \/ k = Len(s) /\ k < Len(t)
           \/ k < Len(s) /\ k < Len(t) /\ Byte[s[k + 1]] < Byte[t[k + 1]]

\* The bindings of the caller, the defaults and NewMinijail's own, in the
\* order of the appends before the variable is read.
OwnBindings(o) ==
    o \o Defaults \o
    << [src |-> Workdir, tgt |-> <<>>, w |-> 1],
       [src |-> Exe, tgt |-> <<>>, w |-> 0],
       [src |-> Llvm, tgt |-> <<>>, w |-> 0],
       [src |-> Wrapper, tgt |-> <<>>, w |-> 0] >>

\* The fields of the variable, each parsed by BindingFromString.
ParseEnv(env) ==
    LET fields == SelectSeq(SplitN(env, ":", 0), LAMBDA f : f # <<>>)
    IN [j \in DOMAIN fields |-> FromString(fields[j])]

\* Mutant of SortedByTarget: the list is left in the order it was built.
SortedByTargetNone(bs) == {bs}

\* sort.Slice by Target: the targets in ascending order; sort.Slice is
\* not stable, so bindings with the same target come in any order.
SortedByTarget(bs) ==
    LET ts       == SetToSortSeq({bs[i].tgt : i \in DOMAIN bs}, LexLess)
        grp(t)   == SelectSeq(bs, LAMBDA b : b.tgt = t)
        perms(s) == {[i \in DOMAIN s |-> s[q[i]]] : q \in Permutations(DOMAIN s)}
    IN FoldLeft(LAMBDA acc, t : {a \o g : a \in acc, g \in perms(grp(t))},
                {<<>>}, ts)

\* NewMinijail returns an error before it reads the variable. The chroot
\* directory exists once os.MkdirTemp succeeded and is not removed.
NewMinijailFailsEarly ==
    /\ result = "none"
    /\ \E f \in NoChrootFailures \cup ChrootFailures :
          chroot' = IF f \in NoChrootFailures THEN "none" ELSE "exists"
    /\ result' = "failed"
    /\ UNCHANGED <<osEnv, listEnv, viaOs, viaList, parsed, failed, read, opts,
                   args>>

\* NewMinijail from the read of the variable on: strings.Split(os.Getenv,
\* ":"), empty fields skipped, BindingFromString on each (its error is
\* returned); then every missing target filled in, the list sorted by
\* target, and for every binding whose source exists the destination
\* created in the chroot (MkdirAll, Touch: an error returns) and "-b"
\* appended.
NewMinijailReads ==
    /\ result = "none"
    /\ \E o \in OptsChoices :
          LET res == ParseEnv(osEnv)
              bad == \E j \in DOMAIN res : res[j].w = -1
              all == OwnBindings(o) \o res
              bs  == [j \in DOMAIN all |-> WithTarget(all[j])]
          IN /\ opts' = o
             /\ read' = TRUE
             /\ failed' = bad
             /\ parsed' = IF bad THEN <<>>
                          ELSE [j \in DOMAIN res |-> WithTarget(res[j])]
             /\ chroot' = "exists"
             /\ \/ /\ bad
                   /\ result' = "failed"
                   /\ UNCHANGED args
                \/ /\ ~bad
                   /\ \E sorted \in SortedByTarget(bs) :
                         \/ /\ result' = "ok"
                            /\ args' = SelectSeq(sorted,
                                                 LAMBDA b : b.src \in Exists)
                         \/ /\ result' = "failed"
                            /\ UNCHANGED args
    /\ UNCHANGED <<osEnv, listEnv, viaOs, viaList>>

\* minijail.Cleanup removes the chroot directory of the returned sandbox.
Cleanup ==
    /\ result = "ok"
    /\ chroot = "exists"
    /\ chroot' = "removed"
    /\ UNCHANGED <<osEnv, listEnv, viaOs, viaList, parsed, failed, read,
                   result, opts, args>>

Next ==
    \/ AddMinijailBindingDeprecated
    \/ AddMinijailBindingToEnv
    \/ ExportEnvList
    \/ NewMinijailFailsEarly
    \/ NewMinijailReads
    \/ Cleanup

Spec == Init /\ [][Next]_vars

-----------------------------------------------------------------------------
(* Properties.                                                              *)

\* A path minijail and the ':'-list can carry: no ',' and no ':'.
Plain(p) == ~HasChar(p, ",") /\ ~HasChar(p, ":")

PlainBindings(s) == \A j \in DOMAIN s : Plain(s[j].src) /\ Plain(s[j].tgt)

\* Spec 8, property 2 on the paths the format can carry: the sandbox
\* parses exactly the bindings the process environment was given, in
\* order, whichever of the two functions formatted them.
RoundTripPlain ==
    (read /\ PlainBindings(viaOs)) => ~failed /\ parsed = viaOs

\* Spec 8, property 2: every binding's String() round-trips through
\* BindingFromString, so the sandbox gets the bindings it was given. A
\* comma in a path splits the three tokens wrongly, and a ':' splits the
\* list.
RoundTrip ==
    read => ~failed /\ parsed = viaOs

\* Path p is a proper ancestor directory of path q.
IsUnder(p, q) ==
    IsStrictPrefix(p, q) /\ (p[Len(p)] = "/" \/ q[Len(p) + 1] = "/")

\* The legacy NewMinijail sorts the bindings by target before it emits
\* "-b" (part_003:334-338, "TODO: Explain why"): minijail mounts in order,
\* and a mount at a directory hides the mounts made earlier below it. So
\* in the sandbox returned, no binding comes after a binding below its
\* target, whichever order the caller, the defaults, NewMinijail and the
\* variable supplied them in.
ChildMountsVisible ==
    result = "ok" =>
        \A i, j \in DOMAIN args : i < j => ~IsUnder(args[j].tgt, args[i].tgt)

=============================================================================
