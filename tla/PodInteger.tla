------------------------------ MODULE PodInteger ------------------------------
(***************************************************************************)
(* An integer pod (pinapod/src/pod/numeric.rs) that lives in an account    *)
(* both a program and the callees of its cross-program invocations write.  *)
(* The optimizer is an actor as well: it may answer a plain load from an   *)
(* earlier one, and move a plain store behind a call; get_volatile and     *)
(* set_volatile exist to keep it from doing so.                            *)
(***************************************************************************)
EXTENDS Integers, Sequences

CONSTANTS
    Radix,    \* number of values of a byte
    Width,    \* bytes of the pod
    Signed    \* whether the native integer is signed

ASSUME PodIntegerAssumption ==
    /\ Radix \in Nat /\ Radix >= 2 /\ Radix % 2 = 0
    /\ Width \in Nat /\ Width >= 1
    /\ Signed \in BOOLEAN

VARIABLES
    mem,      \* the pod's bytes in the account
    loaded,   \* bytes an earlier plain load left in a register, or << >>
    pending,  \* bytes of a plain store not performed yet, or << >>
    running,  \* "program" or "callee"
    held,     \* the bytes the last volatile load returned
    total,    \* history: the value all writes so far add up to
    plain     \* the program's last store was a plain one

integerVars == <<mem, loaded, pending, running, held, total, plain>>

-----------------------------------------------------------------------------
(* The representation: little-endian, two's complement.                    *)

\* Power[k] is Radix ^ k.
Power[k \in 0 .. Width] == IF k = 0 THEN 1 ELSE Power[k - 1] * Radix

Modulus == Power[Width]

Lowest == IF Signed THEN -(Modulus \div 2) ELSE 0

Highest == Lowest + Modulus - 1

Native == Lowest .. Highest

Pod == [1 .. Width -> 0 .. (Radix - 1)]

ToBytes(v) == [i \in 1 .. Width |-> (v \div Power[i - 1]) % Radix]

FromBytes(p) ==
    LET Sum[k \in 0 .. Width] == IF k = 0 THEN 0 ELSE Sum[k - 1] + p[k] * Power[k - 1]
    IN  IF Sum[Width] > Highest THEN Sum[Width] - Modulus ELSE Sum[Width]

-----------------------------------------------------------------------------
(* Arithmetic on the decoded values; an exact result that the native type  *)
(* cannot hold is refused, wrapped or clamped.                             *)

Checked(exact) == IF exact \in Native THEN <<exact>> ELSE << >>

\* Division rounds towards zero.
Quotient(a, b) ==
    LET magnitude == (IF a < 0 THEN -a ELSE a) \div (IF b < 0 THEN -b ELSE b)
    IN  IF (a < 0) = (b < 0) THEN magnitude ELSE -magnitude

CheckedDiv(a, b) == IF b = 0 THEN << >> ELSE Checked(Quotient(a, b))

Wrapping(exact) == Lowest + ((exact - Lowest) % Modulus)

Saturating(exact) ==
    IF exact < Lowest THEN Lowest ELSE IF exact > Highest THEN Highest ELSE exact

Exact(a, b) == {a + b, a - b, a * b}

\* The results an update of a by b can have, << >> being None: checked_add,
\* _sub, _mul and _div, the wrapping_ and saturating_ ones, checked_neg and
\* wrapping_neg.
Results(a, b) ==
    {Checked(exact) : exact \in Exact(a, b)} \cup {CheckedDiv(a, b)}
      \cup {<<Wrapping(exact)>> : exact \in Exact(a, b)}
      \cup {<<Saturating(exact)>> : exact \in Exact(a, b)}
      \cup (IF Signed THEN {Checked(-a), <<Wrapping(-a)>>} ELSE {})

-----------------------------------------------------------------------------

IntegerInit ==
    /\ mem \in Pod
    /\ loaded = << >>
    /\ pending = << >>
    /\ running = "program"
    /\ held = mem
    /\ total = FromBytes(mem)
    /\ plain = FALSE

\* What a load that is not answered from a register yields: the program's own
\* last store is visible to it.
Latest == IF pending # << >> THEN pending ELSE mem

\* The bytes a plain load may yield.
PlainLoad == {Latest} \cup (IF loaded = << >> THEN {} ELSE {loaded})

\* Mutant of VolatileLoad: the accessor loads plainly.
VolatileLoadPlain == PlainLoad

\* The bytes a volatile load may yield.
VolatileLoad == {Latest}

\* Mutant of StoreVolatile: the store can be moved as well.
StoreVolatileLate(v) ==
    /\ pending' = ToBytes(v)
    /\ UNCHANGED mem
    /\ plain' = FALSE

\* set_volatile: performed where it stands, with every store before it.
StoreVolatile(v) ==
    /\ mem' = ToBytes(v)
    /\ pending' = << >>
    /\ plain' = FALSE

\* get.  The register keeps what it has until a store of the program.
GetPlain ==
    /\ running = "program"
    /\ loaded' \in PlainLoad
    /\ UNCHANGED <<mem, pending, running, held, total, plain>>

\* get_volatile, and a copy of the pod.
GetVolatile ==
    /\ running = "program"
    /\ held' \in VolatileLoad
    /\ mem' = Latest
    /\ pending' = << >>
    /\ UNCHANGED <<loaded, running, total, plain>>

\* set.
Set(v) ==
    /\ running = "program"
    /\ pending' = ToBytes(v)
    /\ loaded' = << >>
    /\ total' = v
    /\ plain' = TRUE
    /\ UNCHANGED <<mem, running, held>>

\* A read-modify-write of the program: get_volatile, arithmetic with another
\* value, set_volatile unless the result is None.  `total` follows from the
\* same operation on the true value.
Update ==
    /\ running = "program"
    /\ \E p \in VolatileLoad, x \in Native : \E r \in Results(FromBytes(p), x) :
         /\ IF r = << >> THEN UNCHANGED <<mem, pending, plain, total>>
            ELSE StoreVolatile(r[1]) /\ total' = total + (r[1] - FromBytes(p))
         /\ loaded' = IF r = << >> THEN loaded ELSE << >>
    /\ UNCHANGED <<running, held>>

\* The optimizer performs a store it has put off.
Flush ==
    /\ running = "program"
    /\ pending # << >>
    /\ mem' = pending
    /\ pending' = << >>
    /\ UNCHANGED <<loaded, running, held, total, plain>>

\* A cross-program invocation.  The program keeps to the documented rule: what
\* the callee is to see was stored with set_volatile.
Call ==
    /\ running = "program"
    /\ ~plain
    /\ running' = "callee"
    /\ UNCHANGED <<mem, loaded, pending, held, total, plain>>

\* The callee adds to the value it finds in the account.
CalleeAdds ==
    /\ running = "callee"
    /\ \E x \in Native :
         /\ FromBytes(mem) + x \in Native
         /\ mem' = ToBytes(FromBytes(mem) + x)
         /\ total' = total + x
    /\ UNCHANGED <<loaded, pending, running, held, plain>>

Return ==
    /\ running = "callee"
    /\ running' = "program"
    /\ UNCHANGED <<mem, loaded, pending, held, total, plain>>

IntegerNext ==
    \/ GetPlain \/ GetVolatile \/ Update
    \/ \E v \in Native : Set(v)
    \/ Flush
    \/ Call \/ CalleeAdds \/ Return

IntegerSpec == IntegerInit /\ [][IntegerNext]_integerVars
-----------------------------------------------------------------------------
(* Properties.                                                             *)

\* No update is lost between a program and its callees, whatever loads and
\* stores the optimizer reuses or moves: the account holds the value all
\* writes add up to (numeric.rs:56-100: a balance updated by a callee is
\* observed after the call; a value written before it is in memory).
UpdatesAreNotLost == FromBytes(Latest) = total
==============================================================================
