------------------------------ MODULE Credentials ------------------------------
(***************************************************************************)
(* Where a token comes from: internal/config/credentials.go and the        *)
(* lookups of cmd/git-bulk/main.go.  Pure operators: CloneCommand uses     *)
(* them.                                                                   *)
(*                                                                         *)
(* A credentials file is a sequence of lines, and a line one of            *)
(*   "skip"     empty, or a comment,                                       *)
(*   "set"      KEY=VALUE, with or without blanks and quotes around it,    *)
(*   "unclosed" KEY=" -- the value is a single quote character,            *)
(*   "noValue"  no equals sign.                                            *)
(* The empty value, and that of a variable or flag not given, is Unset.    *)
(*                                                                         *)
(* A definition A_Slip beside a definition A is A with a plausible slip in *)
(* it; nothing uses it but the experiments that show a property notices.   *)
(***************************************************************************)
EXTENDS Naturals, Sequences

CONSTANTS Keys, Values, Unset

ASSUME UnsetAssumption == Unset \in Values

Line == [kind : {"skip", "unclosed", "noValue"}] \cup [kind : {"set"}, key : Keys, value : Values]
File == [exists : BOOLEAN, lines : Seq(Line)]
-----------------------------------------------------------------------------
\* LoadCredentials reads line by line and keeps what it has read before an error.
Begun == [outcome |-> "ok", of |-> [k \in Keys |-> Unset]]

SetValue_KeepsFirst(of, key, value) ==
  IF of[key] # Unset THEN of ELSE [of EXCEPT ![key] = value]
SetValue(of, key, value) == [of EXCEPT ![key] = value]

ReadLine(loaded, line) ==
  CASE loaded.outcome # "ok" \/ line.kind = "skip" -> loaded
    [] OTHER ->
       CASE line.kind = "set" -> [loaded EXCEPT !.of = SetValue(@, line.key, line.value)]
         [] line.kind = "unclosed" -> [loaded EXCEPT !.outcome = "panic"]
         [] line.kind = "noValue"  -> [loaded EXCEPT !.outcome = "error"]

LoadCredentials(lines) ==
  LET read[n \in 0..Len(lines)] == IF n = 0 THEN Begun ELSE ReadLine(read[n - 1], lines[n])
  IN read[Len(lines)]

\* FindCredentialsFile: the first of the usual places that exists.  A file named with
\* --credentials-file is not looked for elsewhere, and ignored when it does not exist.
FileToLoad(named, usual) ==
  IF named # <<>> THEN named[1]
  ELSE IF \E k \in DOMAIN usual : usual[k].exists
       THEN usual[CHOOSE k \in DOMAIN usual :
                    usual[k].exists /\ \A m \in 1..(k - 1) : ~usual[m].exists]
       ELSE [exists |-> FALSE, lines |-> <<>>]

Loaded(file) == IF file.exists THEN LoadCredentials(file.lines) ELSE Begun

\* The flag, and then GetCredential: the environment before the file.
GetCredential_FileFirst(env, loaded, key) ==
  IF loaded.of[key] # Unset THEN loaded.of[key] ELSE env[key]
GetCredential(env, loaded, key) == IF env[key] # Unset THEN env[key] ELSE loaded.of[key]

Credential(flags, env, loaded, key) ==
  IF flags[key] # Unset THEN flags[key] ELSE GetCredential(env, loaded, key)
===============================================================================
