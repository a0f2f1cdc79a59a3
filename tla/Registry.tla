------------------------------- MODULE Registry -------------------------------
(* The lanes src/src/providers/registry.js makes of config/providers.json.   *)
EXTENDS Integers

CONSTANTS
  Providers,          \* provider ids
  KeysPerProvider,    \* a provider has at most this many keys
  Models              \* model names

ASSUME RegistryAssumption == KeysPerProvider \in Nat \ {0}

(* Connection ids are positional, `provider#0` for the first key, whatever   *)
(* the key is.                                                               *)
Keys        == 1 .. KeysPerProvider
Connections == Providers \X Keys
Lanes       == Providers \X Models
=============================================================================
