---------------------------- MODULE ConstantPool ----------------------------
(***************************************************************************)
(* The constant_pool table of a class file: RawClassFile::decode_from and  *)
(* encode_into (src/janadinite-parse/src/class/raw.rs) with the entries'   *)
(* own coding (constant_pool.rs beside it).  A file is read, and perhaps   *)
(* written again and read back.  Program completes the specification.      *)
(*                                                                         *)
(* An entry has a tag, the indices it refers to and, for Utf8, its text.   *)
(* The input is a stream; each element is what reading an entry at that    *)
(* place would give, the rest of the class file behind the pool included,  *)
(* where it may well be an error.  What the class file says behind the     *)
(* pool is its `body', which module ClassFile reads.                       *)
(***************************************************************************)
EXTENDS Naturals, Sequences, SequencesExt

CONSTANTS
    Files,           \* the class files there are
    IndexMod,        \* 2^16: indices are u16
    OverflowChecks   \* the build panics on overflow (debug), or wraps around

ASSUME IndexAssumption == IndexMod \in Nat /\ IndexMod > 2 /\ OverflowChecks \in BOOLEAN
ASSUME FileAssumption ==
    \A f \in Files :
        /\ f.count \in 0..IndexMod - 1
        /\ f.stream \in Seq(ToSet(f.stream))
        /\ \A i \in DOMAIN f.stream :
              LET entry == f.stream[i] IN
              /\ {"tag", "at", "text"} = DOMAIN entry
              /\ entry.tag # "unusable"    \* what is read is never that
              /\ entry.at \in Seq(0..IndexMod - 1)
              /\ entry.tag = "Class" => Len(entry.at) = 1
              /\ entry.tag \in {"NameAndType", "Methodref", "Fieldref"} => Len(entry.at) = 2

VARIABLES
    file,        \* the file as it was found: its count, its stream and its body
    count,       \* constant_pool_count, as read
    input,       \* what is still to be read
    pool,        \* constant_pool; Java's index 0 is pool[1]
    index,
    status,
    original     \* the pool and the rest of the file that were written again

poolVars == <<file, count, input, pool, index, status, original>>

Entry(tag, at) == [tag |-> tag, at |-> at, text |-> <<>>]
Utf8(text) == [tag |-> "Utf8", at |-> <<>>, text |-> text]
Unusable == Entry("unusable", <<>>)
Bad == Entry("bad", <<>>)    \* an unknown tag, invalid MUTF8, ..

TakesTwo(entry) == entry.tag \in {"Long", "Double"}

NoFile == [pool |-> <<>>, rest |-> <<>>]

PoolInit ==
    /\ file \in Files
    /\ count = file.count
    /\ input = file.stream
    /\ original = NoFile
    /\ pool = <<Unusable>>
    /\ index = 1
    /\ status = "decoding"

-----------------------------------------------------------------------------
Reading == status = "decoding" /\ index < count
Ready == input # <<>> /\ Head(input) # Bad

(* The next entry is not one, or the file ends.                            *)
ReadFails ==
    /\ Reading
    /\ ~Ready
    /\ status' = "failed"
    /\ UNCHANGED <<file, count, input, pool, index, original>>

Pushed(entry) == IF TakesTwo(entry) THEN <<entry, Unusable>> ELSE <<entry>>

\* Mutation: one index for every constant.
ReadEntryNarrow ==
    /\ Reading
    /\ Ready
    /\ pool' = Append(pool, Head(input))
    /\ input' = Tail(input)
    /\ index' = index + 1
    /\ UNCHANGED <<file, count, status, original>>

\* Mutation: the index after a long or double is not skipped in the table.
ReadEntryUnpadded ==
    /\ Reading
    /\ Ready
    /\ pool' = Append(pool, Head(input))
    /\ input' = Tail(input)
    /\ index' = (index + Len(Pushed(Head(input)))) % IndexMod
    /\ UNCHANGED <<file, count, status, original>>

ReadEntry ==
    /\ Reading
    /\ Ready
    /\ pool' = pool \o Pushed(Head(input))
    /\ input' = Tail(input)
    /\ IF OverflowChecks /\ index + Len(Pushed(Head(input))) >= IndexMod
       THEN status' = "panicked" /\ UNCHANGED index
       ELSE /\ index' = (index + Len(Pushed(Head(input)))) % IndexMod
            /\ UNCHANGED status
    /\ UNCHANGED <<file, count, original>>

PoolRead ==
    /\ status = "decoding"
    /\ index >= count
    /\ status' = "decoded"
    /\ UNCHANGED <<file, count, input, pool, index, original>>

(* What encode_items writes for the table: nothing for an unusable entry.  *)
Written(table) ==
    LET written[n \in 0..Len(table)] ==
            IF n = 0 THEN <<>>
            ELSE IF table[n] = Unusable THEN written[n - 1]
            ELSE Append(written[n - 1], table[n])
    IN  written[Len(table)]

(* The class file is written, with one less than the length of the table   *)
(* as its count, and the result is read from the start.                    *)
WriteAndReread ==
    /\ status = "decoded"
    /\ original = NoFile
    /\ original' = [pool |-> pool, rest |-> input]
    /\ count' = (Len(pool) - 1) % IndexMod
    /\ input' = Written(pool) \o input
    /\ pool' = <<Unusable>>
    /\ index' = 1
    /\ status' = "decoding"
    /\ UNCHANGED file

PoolNext == ReadFails \/ ReadEntry \/ PoolRead \/ WriteAndReread

-----------------------------------------------------------------------------
(* Properties. *)

\* The index at which the n-th entry of the stream belongs.
IndexOf(stream, n) ==
    LET index_of[i \in 0..Len(stream)] ==
            IF i = 0 THEN 1 ELSE index_of[i - 1] + Len(Pushed(stream[i]))
    IN  index_of[n - 1]

(* What a class means by an index is what the table holds there: a         *)
(* constant is at the index its predecessors' widths add up to.  When the  *)
(* class is written and read back, the one loss is that of a last constant *)
(* of width 1, since the count that is written is too small (raw.rs:345):  *)
(* every other constant has its index again, and no entry is misread.      *)
(* That is, if there are indices enough: past the largest one a release    *)
(* build starts again at 0.                                                *)
ConstantsAtTheirIndices ==
    IF original = NoFile
    THEN \A n \in 1..Len(file.stream) - Len(input) :
            LET place == IndexOf(file.stream, n) + 1 IN
            place \in DOMAIN pool /\ pool[place] = file.stream[n]
    ELSE Len(original.pool) < IndexMod =>
            /\ IsPrefix(pool, original.pool)
            /\ status \in {"decoding", "decoded"}
            /\ status = "decoded" => Len(original.pool) - Len(pool) <= 1

(* The first n entries of the stream take exactly the indices below count. *)
Fills(n, stream, limit) ==
    /\ \A i \in 1..n : stream[i] # Bad
    /\ IndexOf(stream, n + 1) = limit

(* A file whose pool is well formed is decoded, in every build, and the    *)
(* rest of the file starts where the pool ends: the u16 index never wraps  *)
(* around for it.                                                          *)
WellFormedDecodes ==
    \A n \in 0..Len(file.stream) :
        (original = NoFile /\ Fills(n, file.stream, file.count)) =>
            /\ status \notin {"failed", "panicked"}
            /\ status = "decoded" =>
                   /\ Len(pool) = file.count
                   /\ input = SubSeq(file.stream, n + 1, Len(file.stream))

-----------------------------------------------------------------------------
(* The inductive invariant. *)

\* The table that the first n entries of the stream make.
TableOf(stream, n) ==
    LET table[i \in 0..Len(stream)] ==
            IF i = 0 THEN <<Unusable>> ELSE table[i - 1] \o Pushed(stream[i])
    IN  table[n]

\* The entries read so far, this time.
Entries == Len(file.stream) - Len(input)

(* The table is made of the first entries of the file, and so it is the    *)
(* second time.                                                            *)
TableExact ==
    /\ file \in Files
    /\ Entries \in 0..Len(file.stream)
    /\ input = SubSeq(file.stream, Entries + 1, Len(file.stream))
    /\ pool = TableOf(file.stream, Entries)
    /\ \A n \in 1..Entries : file.stream[n] # Bad

\* The index is that of the next entry, unless it has started again at 0.
IndexExact ==
    status \in {"decoding", "decoded"} =>
        /\ index \in Nat
        /\ (OverflowChecks \/ IndexOf(file.stream, Entries + 1) < IndexMod)
               => index = IndexOf(file.stream, Entries + 1)
        /\ status = "decoded" => index >= count

(* The first time, each constant was read because its index was below the  *)
(* count, and the entries of a well formed pool are all read, and no more. *)
CountExact ==
    original = NoFile =>
        /\ count = file.count
        /\ \A n \in 1..Entries :
              (OverflowChecks \/ IndexOf(file.stream, n) < IndexMod) => IndexOf(file.stream, n) < count
        /\ \A n \in 0..Len(file.stream) :
              Fills(n, file.stream, file.count) =>
                  /\ Entries <= n
                  /\ status # "decoding" => Entries = n
                  /\ status \notin {"failed", "panicked"}

(* The second time, what was read the first time is there.                 *)
OriginalExact ==
    original # NoFile =>
        \E k \in 0..Len(file.stream) :
            /\ original.pool = TableOf(file.stream, k)
            /\ \A n \in 1..k : file.stream[n] # Bad
            /\ count = (Len(original.pool) - 1) % IndexMod
            /\ Len(original.pool) < IndexMod => Entries <= k /\ status \in {"decoding", "decoded"}

PoolInv == TableExact /\ IndexExact /\ CountExact /\ OriginalExact
=============================================================================
