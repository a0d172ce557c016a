-------------------------- MODULE SanitizerOptions --------------------------
(***************************************************************************)
(* SetSanitizerOptions (src/unnamed/part_004, package runner), the merge   *)
(* of a user's ASAN_OPTIONS / UBSAN_OPTIONS with cifuzz's defaults and     *)
(* mandatory overrides:                                                     *)
(*   options := strings.Split(existing, ":")                               *)
(*   for key, val := range defaults  { setDefaultIfNotSetAlready(...) }     *)
(*   for key, val := range overrides { overrideOption(...) }                *)
(*   return stringutil.JoinNonEmpty(options, ":")                          *)
(* called by SetCommonASANOptions and SetCommonUBSANOptions with their     *)
(* maps. An option "key=val" is the pair <<key, val>>; an empty field of   *)
(* the split (from "", "a=1::b=2" or a trailing ':') is Empty. Go ranges   *)
(* over a map in an unspecified order: each loop takes its keys in any     *)
(* order.                                                                   *)
(***************************************************************************)
EXTENDS Naturals, Sequences, FiniteSets, TLC

CONSTANTS
    Keys,       \* option names
    Vals,       \* option values
    UserVals,   \* the values a user's own fields give
    MaxLen      \* bound on the number of fields of the user's variable

Empty == <<>>

\* The keys and values cifuzz itself sets.
CifuzzKeys == {"exitcode", "log_path", "color", "print_stacktrace"}
CifuzzVals == {"78", "stderr", "always", "never", "1"}

ASSUME OptionsAssumption ==
    /\ CifuzzKeys \subseteq Keys
    /\ CifuzzVals \cup UserVals \subseteq Vals
    /\ MaxLen \in Nat \ {0}

\* A field of the user's variable.
UserOptions == (Keys \X UserVals) \cup {Empty}

\* sanitizerOptionsColorValue: "always" if stderr is a terminal.
ColorValue(tty) == IF tty THEN "always" ELSE "never"

\* defaultSanitizerOptions, evaluated once at package initialisation.
DefaultSanitizerOptions(tty) == "color" :> ColorValue(tty)

\* The maps SetCommonASANOptions and SetCommonUBSANOptions pass: ASan gets
\* exitcode=SanitizerErrorExitCode and log_path=stderr as overrides; UBSan
\* copies print_stacktrace=1 into a clone of the defaults, and overrides
\* log_path only.
CommonDefaults(san, tty) ==
    IF san = "asan" THEN DefaultSanitizerOptions(tty)
    ELSE ("print_stacktrace" :> "1") @@ DefaultSanitizerOptions(tty)

CommonOverrides(san) ==
    IF san = "asan" THEN ("exitcode" :> "78") @@ ("log_path" :> "stderr")
    ELSE "log_path" :> "stderr"

VARIABLES
    san,        \* which of the two functions was called: "asan" or "ubsan"
    tty,        \* cifuzz's stderr is a terminal
    existing,   \* the fields of the user's variable, as split
    options,    \* the local slice options
    pendingD,   \* keys of defaults the first loop has not visited yet
    pendingO,   \* keys of overrides the second loop has not visited yet
    out,        \* the fields of the returned string; <<>> until returned
    done

vars == <<san, tty, existing, options, pendingD, pendingO, out, done>>

Defaults == CommonDefaults(san, tty)

Overrides == CommonOverrides(san)

SeqsUpTo(S, n) == UNION {[1..k -> S] : k \in 0..n}

\* Indices of the fields of s that set key k: strings.HasPrefix(option,
\* key+"=").
Setting(s, k) == {j \in DOMAIN s : s[j] # Empty /\ s[j][1] = k}

Options == (Keys \X Vals) \cup {Empty}

TypeOK ==
    /\ san \in {"asan", "ubsan"}
    /\ tty \in BOOLEAN
    /\ existing \in SeqsUpTo(UserOptions, MaxLen)
    /\ options \in Seq(Options)
    /\ pendingD \subseteq DOMAIN Defaults
    /\ pendingO \subseteq DOMAIN Overrides
    /\ out \in Seq(Keys \X Vals)
    /\ done \in BOOLEAN

\* envutil.Getenv of the variable, then strings.Split, which never returns
\* an empty slice: an unset variable gives the single empty field.
Init ==
    /\ san \in {"asan", "ubsan"}
    /\ tty \in BOOLEAN
    /\ existing \in SeqsUpTo(UserOptions, MaxLen) \ {<<>>}
    /\ options = existing
    /\ pendingD = DOMAIN Defaults
    /\ pendingO = DOMAIN Overrides
    /\ out = <<>>
    /\ done = FALSE

\* Mutant of setDefaultIfNotSetAlready: the check for an existing setting
\* is lost.
ApplyDefaultAlways ==
    /\ \E k \in pendingD :
          /\ options' = Append(options, <<k, Defaults[k]>>)
          /\ pendingD' = pendingD \ {k}
    /\ UNCHANGED <<san, tty, existing, pendingO, out, done>>

\* One iteration of the defaults loop: setDefaultIfNotSetAlready appends
\* key=value unless some field already sets key.
ApplyDefault ==
    /\ \E k \in pendingD :
          /\ options' = IF Setting(options, k) = {}
                        THEN Append(options, <<k, Defaults[k]>>)
                        ELSE options
          /\ pendingD' = pendingD \ {k}
    /\ UNCHANGED <<san, tty, existing, pendingO, out, done>>

\* One iteration of the overrides loop: overrideOption replaces the FIRST
\* field that sets key and returns; if none does, it appends key=value.
ApplyOverride ==
    /\ pendingD = {}
    /\ \E k \in pendingO :
          /\ LET J == Setting(options, k)
             IN options' = IF J = {}
                           THEN Append(options, <<k, Overrides[k]>>)
                           ELSE [options EXCEPT
                                   ![CHOOSE j \in J : \A m \in J : j <= m] =
                                       <<k, Overrides[k]>>]
          /\ pendingO' = pendingO \ {k}
    /\ UNCHANGED <<san, tty, existing, pendingD, out, done>>

\* Mutant of JoinNonEmpty: strings.Join, which keeps the empty fields.
JoinKeepsEmpty ==
    /\ pendingD = {}
    /\ pendingO = {}
    /\ ~done
    /\ out' = options
    /\ done' = TRUE
    /\ UNCHANGED <<san, tty, existing, options, pendingD, pendingO>>

\* return stringutil.JoinNonEmpty(options, ":"): empty fields are dropped.
JoinNonEmpty ==
    /\ pendingD = {}
    /\ pendingO = {}
    /\ ~done
    /\ out' = SelectSeq(options, LAMBDA o : o # Empty)
    /\ done' = TRUE
    /\ UNCHANGED <<san, tty, existing, options, pendingD, pendingO>>

Next ==
    \/ ApplyDefault
    \/ ApplyOverride
    \/ JoinNonEmpty

Spec == Init /\ [][Next]_vars

-----------------------------------------------------------------------------
(* Properties.                                                              *)

\* The value a sanitizer runtime takes for k from fields s: it parses the
\* fields left to right and the last setting wins; NoValue if none.
NoValue == "unset"

Effective(s, k) ==
    IF Setting(s, k) = {} THEN NoValue
    ELSE s[CHOOSE j \in Setting(s, k) : \A m \in Setting(s, k) : j >= m][2]

\* Spec section 8, property 3, the merge as the user sees it.
Merged(k) ==
    IF k \in DOMAIN Overrides THEN Overrides[k]
    ELSE IF Setting(existing, k) # {} THEN Effective(existing, k)
    ELSE IF k \in DOMAIN Defaults THEN Defaults[k]
    ELSE NoValue

NoDuplicateKeys(s) == \A k \in Keys : Cardinality(Setting(s, k)) <= 1

\* For a user variable that sets each option at most once, the returned
\* string sets each option at most once and to the value of spec property 3:
\* the override, else the user's value, else the default; whatever order
\* Go's map iteration takes.
MergeOnDistinctUserKeys ==
    (done /\ NoDuplicateKeys(existing))
        => /\ NoDuplicateKeys(out)
           /\ \A k \in Keys : Effective(out, k) = Merged(k)

=============================================================================
