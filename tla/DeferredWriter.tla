--------------------------- MODULE DeferredWriter ---------------------------
(***************************************************************************)
(* The writer of src/database/fdb/internal/deferredwriter: it puts words   *)
(* at the handle, leaves room for pointers, and later writes what they     *)
(* point to at pos, its own count of where the file ends.  The handle and  *)
(* pos are two variables, because nothing in the code compares them:       *)
(* flushing a deferred value leaves the handle behind the pointer.         *)
(*                                                                         *)
(* The operators are the writer's methods, without their error returns;    *)
(* FdbBuilder calls them.                                                  *)
(***************************************************************************)
EXTENDS FdbFile

VARIABLES
    offset,    \* of the handle
    pos,       \* Writer.pos
    strings,   \* Writer.Strings: text |-> where it was written
    deferred,  \* Writer.Deferred: <<[home, value]>>
    calls,     \* the DeferredArray calls that are running, innermost last
    promised,  \* history: home |-> the value its pointer shall lead to
    owed       \* history: slot |-> the element its pointer shall lead to

writer == <<file, offset, pos, strings, deferred, calls, promised, owed>>

(* A call of DeferredArray: the slot of its next pointer (arrayPos), the   *)
(* elements still to be written, and where the present one began (dataPos).*)
Call(slot, work) == [slot |-> slot, work |-> work, at |-> 0]
Inner == calls[Len(calls)]
Begun(call) == [call EXCEPT !.at = pos]
WithInner(call) == [calls EXCEPT ![Len(calls)] = call]

Padding(end) == (0 - end) % 4
TextLength(t, at) == TextSize[t] + Padding(at + TextSize[t])

(* PutUint32, PutInt32, PutFloat32, PutBool, one or several in a row.      *)
PutWords(words) ==
    /\ Room(pos + 4 * Len(words))
    /\ file' = PatchedWords(file, offset, words)
    /\ offset' = offset + 4 * Len(words)
    /\ pos' = pos + 4 * Len(words)

\* Mutant: the pointer leads to itself.
Itself(home) == home

Behind(home) == home + 4

Put(word) ==
    /\ PutWords(<<IF word.kind = "pointer" THEN Behind(pos) ELSE word.of>>)
    /\ UNCHANGED <<strings, deferred, calls, promised, owed>>

Defer(value) ==
    /\ PutWords(<<0>>)
    /\ deferred' = Append(deferred, [home |-> pos, value |-> value])
    /\ promised' = [h \in DOMAIN promised \cup {pos} |->
                        IF h = pos THEN value ELSE promised[h]]
    /\ UNCHANGED <<strings, calls, owed>>

(* One turn of Flush's loop.  An interned text is not written again.       *)
PointAt(f, home, address) ==
    /\ file' = PatchedWords(f, home, <<address>>)
    /\ offset' = home + 4

FlushInterned(home, t) ==
    /\ t \in DOMAIN strings
    /\ PointAt(file, home, strings[t])
    /\ UNCHANGED <<pos, strings>>

FlushText(home, t) ==
    LET field == Field(Text(t), TextLength(t, pos))
    IN  /\ t \notin DOMAIN strings
        /\ Room(pos + field.size)
        /\ PointAt(Patched(file, pos, field), home, pos)
        /\ strings' = [s \in DOMAIN strings \cup {t} |-> IF s = t THEN pos ELSE strings[s]]
        /\ pos' = pos + field.size

\* Mutant: a long is counted like a word.
WordLength == 4

LongLength == 8

FlushLong(home, n) ==
    /\ Room(pos + 8)
    /\ PointAt(Patched(file, pos, Field(Long(n), 8)), home, pos)
    /\ pos' = pos + LongLength
    /\ UNCHANGED strings

FlushNext ==
    /\ deferred # <<>>
    /\ LET d == Head(deferred)
       IN  \/ d.value.kind = "text" /\ FlushInterned(d.home, d.value.of)
           \/ d.value.kind = "text" /\ FlushText(d.home, d.value.of)
           \/ d.value.kind = "long" /\ FlushLong(d.home, d.value.of)
    /\ deferred' = Tail(deferred)
    /\ UNCHANGED <<calls, promised, owed>>

(* The array at is owed the elements work.                                 *)
Owing(old, at, work) ==
    LET slots == {at + 4 * (i - 1) : i \in 1..Len(work)}
    IN  [s \in DOMAIN old \cup slots |->
            IF s \in slots THEN work[(s - at) \div 4 + 1] ELSE old[s]]

(* DeferredArray as far as its loop: the caller's words, the pointer to    *)
(* the array if there is one, and a placeholder for every element.         *)
OpenArray(before, work, withPointer, initial) ==
    LET at   == pos + 4 * Len(before) + (IF withPointer THEN 4 ELSE 0)
        head == IF withPointer THEN before \o <<at>> ELSE before
    IN  /\ PutWords(head \o [i \in 1..Len(work) |-> initial])
        /\ calls' = Append(WithInner(Begun(Inner)), Call(at, work))
        /\ owed' = Owing(owed, at, work)
        /\ UNCHANGED <<strings, deferred, promised>>

(* The element had data: its pointer is set and the handle goes back.      *)
Advanced(call) == [call EXCEPT !.slot = @ + 4, !.work = Tail(@)]

\* Mutant: the handle stays behind the pointer.
StaysBehind(call) == call.slot + 4

GoesBack(call) == pos

Return(stack) ==
    LET call == stack[Len(stack)]
    IN  /\ file' = PatchedWords(file, call.slot, <<call.at>>)
        /\ offset' = GoesBack(call)
        /\ calls' = [stack EXCEPT ![Len(stack)] = Advanced(call)]
        /\ UNCHANGED <<pos, strings, deferred, promised, owed>>

(* The element had none: the placeholder stays.                            *)
Skip ==
    /\ calls' = WithInner(Advanced(Inner))
    /\ UNCHANGED <<file, offset, pos, strings, deferred, promised, owed>>
=============================================================================
