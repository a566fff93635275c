------------------------------ MODULE Parameters ------------------------------
(***************************************************************************)
(* string_replace_parameters of src/libcgen/preproc.cpp: parameters "$(p)" *)
(* in a text are replaced by their values, character by character, and     *)
(* "$$" stands for a dollar.  A text is a sequence of characters.          *)
(***************************************************************************)
EXTENDS Naturals, Sequences, SequencesExt

CONSTANTS
  Chars,   \* the characters
  Texts,   \* the texts that are looked at
  params   \* the values of the parameters

ASSUME CharsAssumption  == {"$", "(", ")"} \subseteq Chars
ASSUME TextsAssumption  == Texts \subseteq Seq(Chars)
ASSUME ParamsAssumption == DOMAIN params \subseteq Seq(Chars) /\ \A p \in DOMAIN params : params[p] \in Seq(Chars)

VARIABLES
  str,              \* the text
  it,               \* how many of its characters were read
  state,            \* what was read before: ST_NONE, ST_PARAM_BEGIN, ST_PARAM
  param,            \* the name of the parameter so far
  result,
  undefined_params,
  returned          \* how the call ended: "no" (yet), "result", "assertion"

vars == <<str, it, state, param, result, undefined_params, returned>>

Init ==
  /\ str \in Texts /\ it = 0 /\ state = "ST_NONE" /\ param = <<>>
  /\ result = <<>> /\ undefined_params = <<>> /\ returned = "no"

c       == str[it + 1]
is_last == it + 1 = Len(str)

Reads == it < Len(str) /\ it' = it + 1 /\ UNCHANGED <<str, returned>>

\* Mutant: a dollar begins a parameter even if nothing follows.
DollarAlways ==
  /\ Reads /\ state = "ST_NONE" /\ c = "$"
  /\ state' = "ST_PARAM_BEGIN" /\ UNCHANGED <<param, result, undefined_params>>

Dollar ==
  /\ Reads /\ state = "ST_NONE" /\ c = "$" /\ ~ is_last
  /\ state' = "ST_PARAM_BEGIN" /\ UNCHANGED <<param, result, undefined_params>>

Plain ==
  /\ Reads /\ state = "ST_NONE" /\ (c # "$" \/ is_last)
  /\ result' = Append(result, c) /\ UNCHANGED <<state, param, undefined_params>>

Open ==
  /\ Reads /\ state = "ST_PARAM_BEGIN" /\ c = "("
  /\ state' = "ST_PARAM" /\ UNCHANGED <<param, result, undefined_params>>

\* Mutant: the second dollar may begin a parameter too.
EscapeBegins ==
  /\ Reads /\ state = "ST_PARAM_BEGIN" /\ c = "$" /\ ~ is_last
  /\ result' = Append(result, c) /\ UNCHANGED <<state, param, undefined_params>>

Escape ==
  /\ Reads /\ state = "ST_PARAM_BEGIN" /\ c = "$"
  /\ state' = "ST_NONE" /\ result' = Append(result, c) /\ UNCHANGED <<param, undefined_params>>

NoParameter ==
  /\ Reads /\ state = "ST_PARAM_BEGIN" /\ c \notin {"$", "("}
  /\ state' = "ST_NONE" /\ result' = result \o <<"$", c>> /\ UNCHANGED <<param, undefined_params>>

Name ==
  /\ Reads /\ state = "ST_PARAM" /\ c # ")"
  /\ param' = Append(param, c) /\ UNCHANGED <<state, result, undefined_params>>

\* Mutant: the name goes on with the next parameter.
CloseKeepsName ==
  /\ Reads /\ state = "ST_PARAM" /\ c = ")"
  /\ IF param \in DOMAIN params
     THEN result' = result \o params[param] /\ UNCHANGED undefined_params
     ELSE undefined_params' = Append(undefined_params, param) /\ UNCHANGED result
  /\ state' = "ST_NONE" /\ UNCHANGED param

Close ==
  /\ Reads /\ state = "ST_PARAM" /\ c = ")"
  /\ IF param \in DOMAIN params
     THEN result' = result \o params[param] /\ UNCHANGED undefined_params
     ELSE undefined_params' = Append(undefined_params, param) /\ UNCHANGED result
  /\ state' = "ST_NONE" /\ param' = <<>>

\* The assertion at the end is checked only in debug builds.
Return ==
  /\ it = Len(str) /\ returned = "no"
  /\ returned' \in IF state = "ST_NONE" THEN {"result"} ELSE {"assertion", "result"}
  /\ UNCHANGED <<str, it, state, param, result, undefined_params>>

Next == Dollar \/ Plain \/ Open \/ Escape \/ NoParameter \/ Name \/ Close \/ Return

Spec == Init /\ [][Next]_vars

-----------------------------------------------------------------------------
TypeOK ==
  /\ str \in Texts /\ it \in 0 .. Len(str)
  /\ state \in {"ST_NONE", "ST_PARAM_BEGIN", "ST_PARAM"}
  /\ param \in Seq(Chars) /\ result \in Seq(Chars) /\ undefined_params \in Seq(Seq(Chars))
  /\ returned \in {"no", "assertion", "result"}
  /\ state # "ST_PARAM" => param = <<>>

\* What a text means, read by looking ahead: meaning[k] is what the text is
\* from its character k on, and unknown[k] the parameters missing in it.
Closes(k)   == {j \in k + 2 .. Len(str) : str[j] = ")"}
At(k, a, b) == k + 1 <= Len(str) /\ str[k] = a /\ str[k + 1] = b
Named(k)    == SubSeq(str, k + 2, Min(Closes(k)) - 1)

Meaning ==
  LET meaning[k \in 1 .. Len(str) + 2] ==
        CASE k > Len(str)                                         -> <<>>
          [] At(k, "$", "(") /\ Closes(k) = {}                -> <<>>
          [] At(k, "$", "(") /\ Closes(k) # {}                ->
               (IF Named(k) \in DOMAIN params THEN params[Named(k)] ELSE <<>>)
               \o meaning[Min(Closes(k)) + 1]
          [] At(k, "$", "$")                                  -> <<"$">> \o meaning[k + 2]
          [] OTHER                                                -> <<str[k]>> \o meaning[k + 1]
  IN meaning[1]

Unknown ==
  LET unknown[k \in 1 .. Len(str) + 2] ==
        CASE k > Len(str)                                         -> <<>>
          [] At(k, "$", "(") /\ Closes(k) = {}                -> <<>>
          [] At(k, "$", "(") /\ Closes(k) # {}                ->
               (IF Named(k) \in DOMAIN params THEN <<>> ELSE <<Named(k)>>)
               \o unknown[Min(Closes(k)) + 1]
          [] At(k, "$", "$")                                  -> unknown[k + 2]
          [] OTHER                                                -> unknown[k + 1]
  IN unknown[1]

\* The result is what the text means: values are not looked at again, a dollar
\* that begins nothing stays (the three states of the scan).
ResultIsMeaning == returned = "result" => result = Meaning

\* Each parameter that has no value is reported under its own name, in the
\* order of the text (the callers turn every one into an error).
UndefinedIsReported == returned # "no" => undefined_params = Unknown

\* A text whose dollars are doubled comes out as it was, so that a file can
\* pass parameters on to be replaced later.
Escaped(text) == FlattenSeq([j \in DOMAIN text |-> IF text[j] = "$" THEN <<"$", "$">> ELSE <<text[j]>>])
EscapedTexts  == {Escaped(text) : text \in Texts}

EscapeIsUndone ==
  returned # "no" /\ str \in EscapedTexts =>
    returned = "result" /\ Escaped(result) = str /\ undefined_params = <<>>

\* "$" followed by nothing is a dollar: only an unclosed "$(" is left at the
\* end (is_last, and the assertion on the end state).
OnlyUnclosedAsserts ==
  returned = "assertion" => \E k \in 1 .. Len(str) : At(k, "$", "(") /\ Closes(k) = {}
=============================================================================
