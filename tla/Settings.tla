------------------------------ MODULE Settings ------------------------------
(***************************************************************************)
(* src/src/storage/settings.js over src/src/security/crypto.js: one file,  *)
(* saved whole, that holds the operator key.  The gateway and the CLI each *)
(* read it, change what they came to change, and write all of it back; a   *)
(* process can be started without the secret the key was encrypted under.  *)
(***************************************************************************)
EXTENDS Naturals, FiniteSets

CONSTANTS Secrets,     \* values TOLLPIKE_SECRET can have
          NoSecret,    \* it is not set
          NoKey, Missing, Free,
          MaxKeys      \* operator keys ever generated or chosen

Processes == {"gateway", "cli"}
Groups    == {"vendorA", "vendorB"}
GroupChoices == {"default", "one", "two"}

(* A stored key says under which secret it was encrypted, if any.          *)
StoredKeys == [key : Nat, under : Secrets \cup {NoSecret}]
Document   == [key : {NoKey} \cup StoredKeys, modelAuth : {"unset", "local", "required"},
               groups : [Groups -> GroupChoices]]

ASSUME SettingsAssumption ==
  /\ NoSecret \notin Secrets /\ MaxKeys \in Nat
  /\ NoKey \notin Nat \cup StoredKeys /\ Missing \notin Document

VARIABLES doc,      \* settings.json: the stored key, modelAuth, the other groups;
                    \* or Missing, and a file that does not parse reads the same
          secret,   \* of each process, the secret of this boot
          update,   \* of each process, the update it is in the middle of
          minted,   \* how many operator keys there have been
          wanted    \* what the operator last saved, field by field

settingsVars == <<doc, secret, update, minted, wanted>>

DEFAULTS == [key |-> NoKey, modelAuth |-> "unset", groups |-> [g \in Groups |-> "default"]]

encrypt(w, k) == [key |-> k, under |-> secret[w]]
IsCipher(stored) == stored # NoKey /\ stored.under # NoSecret
CanRead(w, stored) == stored # NoKey /\ stored.under \in {NoSecret, secret[w]}

readRaw == IF doc = Missing THEN DEFAULTS ELSE doc
decodeStored(w, stored) == IF CanRead(w, stored) THEN stored.key ELSE NoKey
getSettings(w) == [readRaw EXCEPT !.key = decodeStored(w, @)]

(* The file, had no key been encrypted.                                    *)
plain(value) == [value EXCEPT !.key = IF @ = NoKey THEN NoKey ELSE @.key]

isKeyUnreadable(w) == IsCipher(readRaw.key) /\ ~CanRead(w, readRaw.key)

(* Mutant: a key that could not be read is written back as null.           *)
encodeForgetful(w, value, explicit) ==
  [value EXCEPT !.key = IF @ # NoKey THEN encrypt(w, @) ELSE NoKey]

encodeForDisk(w, value, explicit) ==
  [value EXCEPT !.key = IF @ # NoKey THEN encrypt(w, @)
                        ELSE IF IsCipher(readRaw.key) /\ ~explicit THEN readRaw.key ELSE NoKey]

(* Patches: a new key, of the caller or generated; modelAuth; some groups, *)
(* merged into what the process read.                                      *)
NewKey(k) == [kind |-> "key", key |-> k]
Apply(value, patch) ==
  CASE patch.kind = "key" -> [value EXCEPT !.key = patch.key]
    [] patch.kind = "first" -> [value EXCEPT !.key = patch.key,
                                  !.modelAuth = IF @ = "unset" THEN "local" ELSE @]
    [] patch.kind = "modelAuth" -> [value EXCEPT !.modelAuth = patch.to]
    [] patch.kind = "groups" -> [value EXCEPT !.groups =
         [g \in Groups |-> IF g \in DOMAIN patch.to THEN patch.to[g] ELSE @[g]]]

(* validateAudit, validateCompression, validateBudgetCap: one bad value    *)
(* refuses the whole patch.                                                *)
Validated(to) == \A g \in DOMAIN to : to[g] \in {"one", "two"}

Begin(w, patch) ==
  /\ update' = [update EXCEPT ![w] = [read |-> getSettings(w), patch |-> patch, stale |-> FALSE]]
  /\ UNCHANGED <<doc, wanted>>

SettingsInit ==
  /\ doc \in {Missing} \cup [key : {NoKey} \cup [key : {0}, under : Secrets \cup {NoSecret}],
                             modelAuth : {"unset", "local", "required"}, groups : {DEFAULTS.groups}]
  /\ secret \in [Processes -> Secrets \cup {NoSecret}]
  /\ update = [w \in Processes |-> Free]
  /\ minted = 1
  /\ wanted = plain(readRaw)

(* ensureOperatorKey, when a process starts: at boot, in `tollpike key`.   *)
Start(w) ==
  /\ update[w] = Free
  /\ \E s \in Secrets \cup {NoSecret} : secret' = [secret EXCEPT ![w] = s]
  /\ UNCHANGED <<doc, update, minted, wanted>>

ensureOperatorKey(w) ==
  /\ update[w] = Free /\ minted < MaxKeys
  /\ getSettings(w).key = NoKey /\ ~isKeyUnreadable(w)
  /\ Begin(w, [kind |-> "first", key |-> minted])
  /\ minted' = minted + 1
  /\ UNCHANGED secret

(* POST /api/panel/gateway-key and `tollpike key rotate`: both have the    *)
(* key in force, the one as its caller, the other to go on at all.         *)
ReplaceKey(w) ==
  /\ update[w] = Free /\ minted < MaxKeys
  /\ getSettings(w).key # NoKey
  /\ Begin(w, NewKey(minted))
  /\ minted' = minted + 1
  /\ UNCHANGED secret

(* POST /api/panel/security, and the other saves of the panel.             *)
SetModelAuth ==
  /\ update["gateway"] = Free
  /\ \E to \in {"local", "required"} : Begin("gateway", [kind |-> "modelAuth", to |-> to])
  /\ UNCHANGED <<secret, minted>>

SaveGroups ==
  /\ update["gateway"] = Free
  /\ \E gs \in (SUBSET Groups) \ {{}} : \E to \in [gs -> {"one", "bad"}] :
       IF Validated(to) THEN Begin("gateway", [kind |-> "groups", to |-> to])
       ELSE UNCHANGED <<doc, update, wanted>>
  /\ UNCHANGED <<secret, minted>>

(* updateSettings: what it read, the patch over it, all written at once by *)
(* a rename.  One that read before another wrote undoes the other's.       *)
Write(w) ==
  LET u == update[w]
      explicit == u.patch.kind \in {"key", "first"}
      next == encodeForDisk(w, Apply(u.read, u.patch), explicit)
  IN /\ u # Free
     /\ doc' = next
     /\ update' = [v \in Processes |-> IF v = w THEN Free
                                      ELSE IF update[v] = Free THEN Free
                                      ELSE [read |-> update[v].read, patch |-> update[v].patch, stale |-> TRUE]]
     /\ wanted' = IF u.stale THEN plain(next) ELSE Apply(wanted, u.patch)
     /\ UNCHANGED <<secret, minted>>

(* A process ends between its read and its rename.                         *)
Die(w) ==
  /\ update[w] # Free
  /\ update' = [update EXCEPT ![w] = Free]
  /\ UNCHANGED <<doc, secret, minted, wanted>>

(* The file is deleted, or edited into something that does not parse.      *)
Lose ==
  /\ doc # Missing /\ \A w \in Processes : update[w] = Free
  /\ doc' = Missing /\ wanted' = DEFAULTS
  /\ UNCHANGED <<secret, update, minted>>

SettingsNext ==
  \/ \E w \in Processes : Start(w) \/ ensureOperatorKey(w) \/ ReplaceKey(w) \/ Write(w) \/ Die(w)
  \/ SetModelAuth \/ SaveGroups \/ Lose

SettingsSpec == SettingsInit /\ [][SettingsNext]_settingsVars

-----------------------------------------------------------------------------
(* What the operator saved is what the file holds: the key survives every  *)
(* save of something else, by a process that cannot read it as well, and   *)
(* no save disturbs a group it did not name (settings.js:288).  Only two   *)
(* processes that save at once undo each other.                            *)
SavedSurvives == plain(readRaw) = wanted
=============================================================================
