----------------------------- MODULE Credentials -----------------------------
(***************************************************************************)
(* src/src/security/credentialStore.js and src/src/env.js: one variable of *)
(* a provider's key, in files of NAME=value lines that a boot reads in     *)
(* turn, and that the panel edits line by line.                            *)
(***************************************************************************)
EXTENDS Naturals, Sequences, FiniteSets

CONSTANTS Plain,   \* keys that are written as they are
          Quoted,  \* keys with a quote or a backslash, which are escaped
          Unset, Mangled, MaxLines, MaxSaves

ASSUME CredentialsAssumption ==
  MaxLines \in Nat /\ MaxSaves \in Nat /\ Unset \notin Plain \cup Quoted

VARIABLES protectedFile, projectFile,  \* the lines, in order
          environment,  \* of the variable, what the process was started with
          named,        \* TOLLPIKE_ENV_FILE names the protected file
          current,      \* process.env now
          chosen,       \* the last thing saved from the panel, Unset if cleared
          saves

credentialVars == <<protectedFile, projectFile, environment, named, current, chosen, saves>>

Keys == Plain \cup Quoted
Line(form, value) == [form |-> form, value |-> value]
Other == Line("other", Unset)

(* Mutant: a line that exports the variable is not seen.                   *)
matchesBare(line) == line.form = "bare"

assignmentMatcher(line) == line.form \in {"bare", "export"}

(* dotenv, of one file: the last assignment counts, and what is escaped    *)
(* between quotes is not restored.                                         *)
Assignments(lines) == {i \in DOMAIN lines : lines[i].form # "other"}
Parsed(lines) ==
  LET mine == Assignments(lines)
      last == lines[CHOOSE i \in mine : \A j \in mine : j <= i]
  IN IF mine = {} THEN Unset ELSE IF last.value \in Quoted THEN Mangled ELSE last.value

(* The files in order, none over what is set already.                      *)
Loaded(env, protected, project) ==
  IF env # Unset THEN env
  ELSE IF Parsed(protected) # Unset \/ named THEN Parsed(protected) ELSE Parsed(project)

(* What dotenv reads: the operator edits the file by hand.                 *)
Files == {<<>>, <<Other>>} \cup
  {<<Line(form, k)>> : form \in {"bare", "export"}, k \in Plain} \cup
  {<<Line("bare", k), Line("export", l)>> : k, l \in Plain}

CredentialsInit ==
  /\ protectedFile \in Files
  /\ projectFile \in {<<>>} \cup {<<Line("bare", k)>> : k \in Plain}
  /\ environment \in {Unset} \cup Plain
  /\ named \in BOOLEAN
  /\ current = Loaded(environment, protectedFile, projectFile)
  /\ chosen = current /\ saves = 0

(* A replaced line keeps its place and loses its export; a new one goes at *)
(* the end, after a blank one.                                             *)
setCredential(k) ==
  LET hits == {i \in DOMAIN protectedFile : assignmentMatcher(protectedFile[i])}
      first == CHOOSE i \in hits : \A j \in hits : i <= j
  IN protectedFile' = IF hits # {} THEN [protectedFile EXCEPT ![first] = Line("bare", k)]
                      ELSE Append(protectedFile, Line("bare", k))

(* The lines at these places, in their order.                              *)
Taken(lines, places) ==
  [n \in 1 .. Cardinality(places) |->
     lines[CHOOSE i \in places : Cardinality({j \in places : j <= i}) = n]]

clearCredential ==
  protectedFile' = Taken(protectedFile,
                         {i \in DOMAIN protectedFile : ~assignmentMatcher(protectedFile[i])})

(* POST /api/panel/providers/:id/key: the file, then the process.          *)
SaveKey ==
  /\ saves < MaxSaves /\ saves' = saves + 1
  /\ \E k \in Keys : setCredential(k) /\ current' = k /\ chosen' = k
  /\ Len(protectedFile') <= MaxLines
  /\ UNCHANGED <<projectFile, environment, named>>

(* An empty key clears; one with a line break is refused; a file that      *)
(* cannot be written leaves everything as it was.                          *)
ClearKey ==
  /\ saves < MaxSaves /\ saves' = saves + 1
  /\ clearCredential /\ current' = Unset /\ chosen' = Unset
  /\ UNCHANGED <<projectFile, environment, named>>

(* env.js, when the process starts again, maybe from another shell.        *)
LoadEnvironment ==
  /\ \E env \in {Unset, environment} :
       environment' = env /\ current' = Loaded(env, protectedFile, projectFile)
  /\ UNCHANGED <<protectedFile, projectFile, named, chosen, saves>>

CredentialsNext == SaveKey \/ ClearKey \/ LoadEnvironment

CredentialsSpec == CredentialsInit /\ [][CredentialsNext]_credentialVars

-----------------------------------------------------------------------------
(* A key the panel saved, or cleared, is the one the gateway has at its    *)
(* next start as well, unless the shell sets another, the file assigned it *)
(* twice, it had to be quoted, or another file still has one that was      *)
(* cleared here (credentialStore.js:129, :157).                            *)
KeyOutlivesTheProcess ==
  saves > 0 /\ chosen \notin Quoted /\ Cardinality(Assignments(protectedFile)) < 2 =>
    LET next == Loaded(Unset, protectedFile, projectFile)
    IN next = chosen \/ (chosen = Unset /\ ~named /\ next = Parsed(projectFile))
=============================================================================
