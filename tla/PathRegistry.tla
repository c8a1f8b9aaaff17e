---------------------------- MODULE PathRegistry ----------------------------
(***************************************************************************)
(* The process-wide registry of the paths in use by a Client's store or by *)
(* a FileSink, and the PathClaim objects that hold its entries.  Claims    *)
(* are made, moved (from Client::create into the Client) and released by   *)
(* different threads; the registry itself is changed under its mutex.      *)
(*                                                                         *)
(* A path is a name; Normal gives the normal form of each, the same for    *)
(* two names of one file.                                                  *)
(***************************************************************************)
EXTENDS Naturals, FiniteSets

CONSTANTS
    Claims,     \* the PathClaim objects
    Paths,      \* names
    InMemory,   \* the name that is_in_memory recognises, ":memory:"
    Files,      \* normal forms
    Normal(_),  \* normalize
    NoPath      \* no path

ASSUME PathAssumption ==
    /\ InMemory \subseteq Paths
    /\ \A p \in Paths : Normal(p) \in Files
    /\ NoPath \notin Paths \cup Files

VARIABLES
    registry,   \* registry(): keys in use
    key,        \* key_ of each claim, NoPath when it is not held
    uses        \* the path each claim's owner was told it may use

vars == <<registry, key, uses>>

held(c) == key[c] # NoPath

RegistryTypeOK ==
    /\ registry \subseteq Files
    /\ key \in [Claims -> Files \cup {NoPath}]
    /\ uses \in [Claims -> Paths \cup {NoPath}]

Init ==
    /\ registry = {}
    /\ key = [c \in Claims |-> NoPath]
    /\ uses = [c \in Claims |-> NoPath]

-----------------------------------------------------------------------------
\* The registry once c has given up its entry; erasing NoPath does nothing.
Without(c) == registry \ {key[c]}

\* PathClaim::release, also run by the destructor.
Release(c) ==
    /\ registry' = Without(c)
    /\ key' = [key EXCEPT ![c] = NoPath]
    /\ uses' = [uses EXCEPT ![c] = NoPath]

\* Variant: paths are compared as they are spelled.
TakenAsSpelled(c, p) == {Normal(q) : q \in {uses[d] : d \in Claims \ {c}} \cap {p}}

\* The entries a new claim on p must not be among.
Taken(c, p) == Without(c)

\* PathClaim::acquire: gives up the claim's own entry, then tries to enter p.
Acquire(c, p) ==
    \/ /\ p \in InMemory
       /\ registry' = Without(c)
       /\ key' = [key EXCEPT ![c] = NoPath]
       /\ uses' = [uses EXCEPT ![c] = p]
    \/ /\ p \notin InMemory
       /\ Normal(p) \notin Taken(c, p)
       /\ registry' = Without(c) \cup {Normal(p)}
       /\ key' = [key EXCEPT ![c] = Normal(p)]
       /\ uses' = [uses EXCEPT ![c] = p]
    \/ /\ p \notin InMemory
       /\ Normal(p) \in Taken(c, p)
       /\ registry' = Without(c)
       /\ key' = [key EXCEPT ![c] = NoPath]
       /\ uses' = [uses EXCEPT ![c] = NoPath]

\* The move assignment of c to d.
Move(c, d) ==
    /\ c # d
    /\ registry' = Without(d)
    /\ key' = [key EXCEPT ![d] = key[c], ![c] = NoPath]
    /\ uses' = [uses EXCEPT ![d] = uses[c], ![c] = NoPath]

Next ==
    \E c \in Claims :
      \/ Release(c)
      \/ \E p \in Paths : Acquire(c, p)
      \/ \E d \in Claims : Move(c, d)

Spec == Init /\ [][Next]_vars

-----------------------------------------------------------------------------
(* Properties *)

\* No two owners use the same file, whatever they use it for and under
\* whatever names, however claims were moved and released (acquire, release).
ExclusiveOwner ==
    \A c, d \in Claims :
      c # d /\ {uses[c], uses[d]} \subseteq Paths \ InMemory
        => Normal(uses[c]) # Normal(uses[d])

\* No entry outlives its claim, so a path can be used again once its owner is
\* gone, and no entry is erased while its claim is held (release, move).
NoLeakedEntry == registry = {key[c] : c \in {d \in Claims : held(d)}}

\* What makes the two inductive: an entry has one claim, and an owner that was
\* let in holds the entry of its path.
RegistryInv ==
    /\ RegistryTypeOK
    /\ NoLeakedEntry
    /\ \A c, d \in Claims : c # d /\ held(c) => key[c] # key[d]
    /\ \A c \in Claims : uses[c] \in Paths \ InMemory => key[c] = Normal(uses[c])
=============================================================================
