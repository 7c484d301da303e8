-------------------------------- MODULE PodOption ------------------------------
(***************************************************************************)
(* PodOption<T, PFX> (pinapod/src/pod/option.rs): a little-endian tag of   *)
(* PFX bytes and one payload slot, over account bytes that may hold        *)
(* anything.  Several options, so that they can be compared.               *)
(***************************************************************************)
EXTENDS Integers

CONSTANTS
    Cell,     \* the options
    TagMax,   \* largest value of the PFX-byte tag
    Payload,  \* bit patterns of the payload; 0 is the slot of zero bytes
    Legal,    \* payloads T::validate_ref accepts
    Given     \* values the program passes in: valid ones

ASSUME PodOptionAssumption ==
    /\ TagMax \in Nat /\ TagMax >= 1
    /\ 0 \in Payload
    /\ Legal \subseteq Payload /\ Given \subseteq Legal

VARIABLES
    tags,      \* tags[c]: the decoded tag
    payloads,  \* payloads[c]: the payload slot
    reply,     \* the last call, and what it returned
    written    \* history: options a call has written

optionVars == <<tags, payloads, reply, written>>

\* A call of `method` on the option c with the argument `given` returned
\* `result`, both as options: << >> or <<v>>.
Reply(method, c, given, result) ==
    [method |-> method, cell |-> c, given |-> given, result |-> result]

NoReply == [method |-> "none"]

\* encode_tag, as uN.
EncodeTag(t) == t % (TagMax + 1)

\* get, get_ref: every tag but 1 counts as absent.
Get(c) == IF tags[c] = 1 THEN <<payloads[c]>> ELSE << >>

\* validate_ref, and try_get_ref's errors.
Valid(c) == tags[c] = 0 \/ (tags[c] = 1 /\ payloads[c] \in Legal)

\* PartialEq.
Equal(c, d) == Get(c) = Get(d)

\* Mutant of Hashed: Hash derived over the fields.
HashedFields(c) == <<tags[c], payloads[c]>>

\* What Hash feeds the hasher.
Hashed(c) == IF tags[c] = 0 THEN <<0>> ELSE <<1, Get(c)>>

OptionInit ==
    /\ tags \in [Cell -> 0 .. TagMax]
    /\ payloads \in [Cell -> Payload]
    /\ reply = NoReply
    /\ written = {}

\* The two assignments of a call; 0 is the tag or payload of zero bytes.
StoreCell(c, tag, payload) ==
    /\ tags' = [tags EXCEPT ![c] = tag]
    /\ payloads' = [payloads EXCEPT ![c] = payload]
    /\ written' = written \cup {c}

SetSome(c, v) ==
    /\ StoreCell(c, EncodeTag(1), v)
    /\ reply' = Reply("set", c, <<v>>, << >>)

SetNone(c) ==
    /\ StoreCell(c, 0, 0)
    /\ reply' = Reply("set", c, << >>, << >>)

\* Mutant of Clear: the payload stays behind.
ClearTag(c) ==
    /\ StoreCell(c, 0, payloads[c])
    /\ reply' = Reply("clear", c, << >>, << >>)

Clear(c) ==
    /\ StoreCell(c, 0, 0)
    /\ reply' = Reply("clear", c, << >>, << >>)

\* Mutant of Take: the payload is returned whatever the tag.
TakeAny(c) ==
    /\ StoreCell(c, 0, 0)
    /\ reply' = Reply("take", c, << >>, <<payloads[c]>>)

\* Mutant of Take: the value is looked up once the tag is cleared.
TakeCleared(c) ==
    /\ StoreCell(c, 0, 0)
    /\ reply' = Reply("take", c, << >>, << >>)

\* Mutant of Take: the payload stays behind.
TakeTag(c) ==
    /\ StoreCell(c, 0, payloads[c])
    /\ reply' = Reply("take", c, << >>, Get(c))

Take(c) ==
    /\ StoreCell(c, 0, 0)
    /\ reply' = Reply("take", c, << >>, Get(c))

Replace(c, v) ==
    /\ StoreCell(c, EncodeTag(1), v)
    /\ reply' = Reply("replace", c, <<v>>, Get(c))

OptionNext ==
    \E c \in Cell :
        \/ \E v \in Given : SetSome(c, v) \/ Replace(c, v)
        \/ SetNone(c)
        \/ Clear(c)
        \/ Take(c)

OptionSpec == OptionInit /\ [][OptionNext]_optionVars

\* Options that calls left with the same value have the same bytes, whichever
\* methods left them so and whatever the bytes were before: set writes "the
\* canonical bytes for either state" (option.rs:203), and set(None), take and
\* clear each scrub what they remove (podZeroedInactiveCapacityContract).
WrittenOptionsAreCanonical ==
    \A c, d \in written :
        Get(c) = Get(d) => tags[c] = tags[d] /\ payloads[c] = payloads[d]

\* Eq and Hash agree on every option that readers accept or a call wrote: an
\* accepted absent option may hold any payload bytes, which == ignores, so
\* hash has to ignore them too.  (A corrupt tag equals None and hashes
\* differently; hash says so and the readers refuse it.)
EqualOptionsHashEqual ==
    \A c, d \in Cell :
        {c, d} \subseteq written \cup {e \in Cell : Valid(e)} /\ Equal(c, d)
            => Hashed(c) = Hashed(d)

\* From any account bytes on, every method does to the option of its cell what
\* it does to an Option and returns what it returns there: take and replace the
\* value the cell held.  A corrupt tag counts as absent, and its payload is
\* never returned.
Options == INSTANCE OptionalValues WITH
    Value <- Payload, held <- [c \in Cell |-> Get(c)]
ImplementsOption == Options!Spec
=============================================================================
