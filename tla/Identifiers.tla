---------------------------- MODULE Identifiers ----------------------------
(***************************************************************************)
(* next_id (src/actors/utils.rs): one static counter gives PUBLISH,        *)
(* SUBSCRIBE and UNSUBSCRIBE their packet identifiers.  It starts at a     *)
(* random number and is never told which identifiers are in use.           *)
(***************************************************************************)
EXTENDS PacketStatus

CONSTANTS
    FirstId,    \* where the random counter of next_id may start
    UsizeRange  \* the counter wraps at this number (2^64)

ASSUME IdentifierAssumption ==
    /\ UsizeRange \in Nat \ {0}
    /\ FirstId \subseteq 0 .. UsizeRange - 1

\* What 2^64 is modulo 65535: the last identifier before the wrap and the first
\* one after it are the same, WrapId.
ASSUME WrapAssumption == UsizeRange % MaxId = 1

WrapId == ((UsizeRange - 1) % MaxId) + 1

VARIABLE idCounter  \* the static ID

\* Mutant: identifiers start at 0.
NextIdFromZero == idCounter % MaxId

\* fetch_add returns the old value.
NextId == (idCounter % MaxId) + 1
TakeIdStale == UNCHANGED idCounter  \* mutant: the counter is read, not incremented
TakeId == idCounter' = (idCounter + 1) % UsizeRange

=============================================================================
