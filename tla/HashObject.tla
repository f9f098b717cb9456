----------------------------- MODULE HashObject -----------------------------
(***************************************************************************)
(* One object of the Java class Hash, used by several threads: its methods *)
(* sha256, sha512 and blake2, each of which makes an array, keeps it in    *)
(* the field buffer, has a native method write the digest to what is in    *)
(* the field then, and returns what is in the field after that.  (The      *)
(* fourth, pwhash_scryptsalsa208sha256, is left out: it reads the field    *)
(* once more, for its length, and does not look at the result -1, so that  *)
(* it encodes an array without a hash if there was no memory.)  The native *)
(* method is a step of its own, as JniBoundary shows that it can be seen   *)
(* between callers that keep to their arrays; a Hash that is shared makes  *)
(* them break that rule.                                                   *)
(*                                                                         *)
(* Array k is the one that call k makes.                                   *)
(***************************************************************************)
EXTENDS Naturals, Sequences

CONSTANTS
    Users,     \* the threads
    Methods,   \* the methods: sha256, sha512 and so on
    Size,      \* Size[f]: the length of method f's digest
    Messages,
    MaxUses    \* bound: the calls of all threads

(* What an instance has to satisfy.                                         *)
HashParameters == Size \in [Methods -> Nat] /\ MaxUses \in Nat

VARIABLES
    buffer,    \* the field: the number of an array, 0 for null
    made,      \* made[k]: the length of array k and what has been written to it
    uses       \* uses[k]: call k, where it is, and the calls in progress at any time it was

hashVars == <<buffer, made, uses>>

Fresh == <<>>
HashInit == buffer = 0 /\ made = <<>> /\ uses = <<>>

Running == {k \in DOMAIN uses : uses[k].at # "returned"}
Began(t, f, m) ==
    Append([k \in DOMAIN uses |-> IF k \in Running THEN [uses[k] EXCEPT !.met = @ \cup {Len(uses) + 1}] ELSE uses[k]],
           [user |-> t, method |-> f, message |-> m, at |-> "load", array |-> 0, overran |-> FALSE, met |-> Running])

(* Mutant: an array of the right length that is in the field is used again. *)
MakeOnce(t, f, m) ==
    /\ Len(uses) < MaxUses /\ \A k \in Running : uses[k].user # t
    /\ uses' = Began(t, f, m)
    /\ made' = Append(made, [len |-> Size[f], digest |-> Fresh])
    /\ buffer' = IF buffer # 0 /\ made[buffer].len = Size[f] THEN buffer ELSE Len(made) + 1
(* buffer = new byte[...]                                                  *)
Make(t, f, m) ==
    /\ Len(uses) < MaxUses /\ \A k \in Running : uses[k].user # t
    /\ uses' = Began(t, f, m)
    /\ made' = Append(made, [len |-> Size[f], digest |-> Fresh])
    /\ buffer' = Len(made) + 1
(* The argument buffer is taken from the field.                            *)
Load(k) ==
    /\ uses[k].at = "load"
    /\ uses' = [uses EXCEPT ![k].at = "write", ![k].array = buffer]
    /\ UNCHANGED <<buffer, made>>
(* The native method, which does not know how long the array is.           *)
Write(k) ==
    /\ uses[k].at = "write"
    /\ made' = [made EXCEPT ![uses[k].array].digest = <<uses[k].method, uses[k].message>>]
    /\ uses' = [uses EXCEPT ![k].at = "return", ![k].overran = made[uses[k].array].len < Size[uses[k].method]]
    /\ UNCHANGED buffer
HandOut(k) ==
    /\ uses[k].at = "return"
    /\ uses' = [uses EXCEPT ![k].at = "returned", ![k].array = buffer]
    /\ UNCHANGED <<buffer, made>>

HashNext ==
    \/ \E t \in Users, f \in Methods, m \in Messages : Make(t, f, m)
    \/ \E k \in DOMAIN uses : Load(k) \/ Write(k) \/ HandOut(k)

HashSpec == HashInit /\ [][HashNext]_hashVars

-----------------------------------------------------------------------------

(* What a call returned that no other call met is an array of its own with *)
(* the digest of its message, and stays so whatever is called later.  Any  *)
(* other returns an array of a call that it met, if not its own, and only  *)
(* such a call has the native method write past the end of an array.       *)
ResultsAreOwnUnlessShared ==
    \A k \in DOMAIN uses :
        LET u == uses[k] IN
        /\ u.at = "returned" /\ u.met = {} =>
              u.array = k /\ made[k] = [len |-> Size[u.method], digest |-> <<u.method, u.message>>]
        /\ u.at = "returned" => u.array \in {k} \cup u.met
        /\ u.overran => \E j \in u.met : Size[uses[j].method] < Size[u.method]
=============================================================================
