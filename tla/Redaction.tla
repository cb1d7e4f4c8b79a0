----------------------------- MODULE Redaction -----------------------------
(***************************************************************************)
(* The way of a client's output into what is committed: run.sh stores it   *)
(* as evidence, emit.py cuts the detail of the cell out of it, and the     *)
(* harness replaces the checkout's path in the evidence, in the cell and   *)
(* in the line for a failed runner.  A text is a sequence of tokens; the   *)
(* path is a sequence of several, so a cut can go through it.              *)
(***************************************************************************)
EXTENDS Naturals, Sequences, SequencesExt

CONSTANTS
    Root,        \* str(ROOT), the tokens of the checkout's absolute path
    Words,       \* what a client prints, besides that path, and what that reads as
    Reading,     \* what read_text(errors="replace") makes of a word
    Replacement, \* what it makes of bytes that are no text
    MaxWords,    \* bound: the length of an output, a path counting as one
    DetailLimit, \* 400 in emit.py
    LineLimit    \* 200 in harness.py

Marker == "<repo>"

\* No client prints what redact() puts in the path's place, and the path does not
\* contain it.  Bytes that are no text and line ends are words of their own: the path
\* has neither, and is read as itself.
ASSUME RedactionAssumption ==
    /\ Root \in Seq(ToSet(Root)) /\ Len(Root) >= 1
    /\ Words \cap ToSet(Root) = {}
    /\ Marker \notin Words \cup ToSet(Root)
    /\ Reading \in [Words -> Words] /\ Replacement \in Words
    /\ MaxWords \in Nat /\ DetailLimit \in Nat /\ LineLimit \in Nat

\* str.replace: from the left, without overlaps.
RootAt(t, i) ==
    i + Len(Root) - 1 <= Len(t) /\ SubSeq(t, i, i + Len(Root) - 1) = Root

Redact(text) ==
    LET from[i \in 1 .. Len(text) + 1] ==
            IF i > Len(text) THEN <<>>
            ELSE IF RootAt(text, i) THEN <<Marker>> \o from[i + Len(Root)]
            ELSE <<text[i]>> \o from[i + 1]
    IN from[1]

Cut(text, n) == SubSeq(text, 1, IF Len(text) < n THEN Len(text) ELSE n)

\* A text as Python reads it: bytes that do not decode are replaced, and every line
\* end is a newline.
AsRead(text) ==
    [i \in 1 .. Len(text) |->
        IF text[i] \in Words THEN Reading[text[i]] ELSE text[i]]

\* A strict read raises: the text has bytes that are replaced in another.
Undecodable(text) ==
    \E i \in 1 .. Len(text) :
        AsRead(text)[i] = Replacement /\ text[i] # Replacement

VARIABLES
    step,       \* who has the text, then where it ended
    said,       \* the client's output
    access,     \* what the harness may do to the file: "write", "read", "none"
    evidence,   \* the file run.sh redirected it to
    detail,     \* the detail of the cell on the runner's stdout, then in cells
    line        \* the entry of `failures`

vars == <<step, said, access, evidence, detail, line>>

\* Everything a client can print up to the bound.
Outputs ==
    LET pieces == {<<w>> : w \in Words} \cup {Root}
    IN {FlattenSeq(ws) :
           ws \in UNION {[1 .. n -> pieces] : n \in 0 .. MaxWords}}

Init ==
    /\ step = "client" /\ access = "write"
    /\ said = <<>> /\ evidence = <<>> /\ detail = <<>> /\ line = <<>>

\* The client's output is redirected into the evidence file, whose permissions are
\* anything.
ClientWrites ==
    /\ step = "client"
    /\ step' = "runner"
    /\ \E o \in Outputs : said' = o /\ evidence' = o
    /\ access' \in {"write", "read", "none"}
    /\ UNCHANGED <<detail, line>>

\* emit.py reads it back, "" where it cannot, and truncates.
Emit ==
    /\ step = "runner"
    /\ step' = "harness"
    /\ detail' = IF access = "none" THEN <<>> ELSE Cut(AsRead(evidence), DetailLimit)
    /\ UNCHANGED <<said, access, evidence, line>>

\* redact_tree(): a file that cannot be read is left as it is; another is written only
\* where redact() changes what was read, and then as it was read.
AlwaysRewritten(text) ==       \* slip: written whether or not it has changed
    IF access = "none" THEN text ELSE Redact(AsRead(text))
Rewritten(text) ==
    IF access = "none" \/ Redact(AsRead(text)) = AsRead(text)
    THEN text
    ELSE Redact(AsRead(text))

\* The runner returned 0: redact_tree(ev), then redact(r.stdout).
Collect ==
    /\ step = "harness"
    /\ access = "read" => Rewritten(evidence) = evidence
    /\ step' = "committed"
    /\ evidence' = Rewritten(evidence)
    /\ detail' = Redact(detail)
    /\ UNCHANGED <<said, access, line>>

\* write_text raises, which nothing catches: the harness ends, and publishes nothing.
Unwritable ==
    /\ step = "harness"
    /\ access = "read" /\ Rewritten(evidence) # evidence
    /\ step' = "ended"
    /\ UNCHANGED <<said, access, evidence, detail, line>>

\* The runner returned nonzero with this output on stderr: redact, then cut.
CutThenRedact(text) == Redact(Cut(text, LineLimit))    \* slip: order swapped
FailureLine(text) == Cut(Redact(text), LineLimit)
ReportFailure ==
    /\ step = "runner"
    /\ ~Undecodable(said)
    /\ step' = "reported"
    /\ line' = FailureLine(AsRead(said))
    /\ UNCHANGED <<said, access, evidence, detail>>

\* subprocess.run() decodes strictly, and raises: the harness ends.
Unreadable ==
    /\ step = "runner"
    /\ Undecodable(said)
    /\ step' = "ended"
    /\ UNCHANGED <<said, access, evidence, detail, line>>

Next ==
    \/ ClientWrites \/ Emit \/ Collect \/ Unwritable
    \/ ReportFailure \/ Unreadable

Spec == Init /\ [][Next]_vars
-----------------------------------------------------------------------------
Clean(text) == ToSet(text) \cap ToSet(Root) = {}

\* Neither the evidence of a cell, where the harness can read it, nor the line of a
\* failed runner names any part of the checkout's path, wherever it occurred and
\* wherever it is cut.
NoPathLeft ==
    /\ step = "committed" /\ access # "none" => Clean(evidence)
    /\ step = "reported" => Clean(line)

\* Redaction rewrites only what has the path in it, and hides only that: committed
\* evidence is to the byte what the client said, or it has the mark, and with the path
\* put back it is what the client said as text is read.
PutBack(text) == FlattenSeq([i \in 1 .. Len(text) |->
                    IF text[i] = Marker THEN Root ELSE <<text[i]>>])
EvidenceIsFaithful ==
    step = "committed" =>
        \/ evidence = said
        \/ Marker \in ToSet(evidence) /\ PutBack(evidence) = AsRead(said)

\* harness.py:62-68: redaction keeps the checkout's path, with the account name
\* in it, out of anything that is committed, the detail of a cell included.
NoPathInDetail == step = "committed" => Clean(detail)
=============================================================================
