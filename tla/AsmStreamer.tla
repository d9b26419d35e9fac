----------------------------- MODULE AsmStreamer -----------------------------
(***************************************************************************)
(* F2003fMCAsmStreamer, and AsmPrinter driving it through one module.      *)
(*                                                                         *)
(* 2003lk source is a list of lines: an instruction, or a lifem8, lifem16  *)
(* or lifem directive with one number; a label is written on the line of   *)
(* the unit it marks (l' name).  There are no sections and no .align, so   *)
(* the streamer packs the bytes AsmPrinter emits into directives of the    *)
(* width of the current alignment, holding back an incomplete one in       *)
(* ValueBuffer.  The bytes must come out in order and every label in front *)
(* of the first byte of its object.                                        *)
(*                                                                         *)
(* A byte is <<sym, n>>, the n-th byte of the object (or the n-th          *)
(* instruction of the function) sym, most significant byte of a value      *)
(* first.  Functions are emitted before global variables.                  *)
(***************************************************************************)
EXTENDS Integers, Sequences, SequencesExt, FiniteSets

CONSTANTS
    Symbol,         \* names a module may define or refer to
    Object,         \* initialised globals: [section, align, parts], the parts
                    \* of the initialiser in order, each [size, ref]
    MaxItems,       \* functions and globals in a module
    MaxInsts,       \* instructions in a function
    None            \* no symbol

TextSection == "text"
Unset == 0          \* CurrentAlignmentToValue before its first assignment
PadByte == <<None, 0>>

ASSUME ObjectAssumption ==
    /\ None \notin Symbol
    /\ \A o \in Object :
          /\ o.section # TextSection /\ o.align \in {1, 2, 4, 8}
          /\ o.parts \in Seq([size : {1, 2, 4, 8}, ref : Symbol \cup {None}])

ASSUME BoundAssumption == MaxItems \in Nat /\ MaxInsts \in Nat

VARIABLES
    section,                    \* the current section
    CurrentAlignmentToValue,
    ValueBuffer,                \* bytes of a directive not yet complete
    LabelToEmit,                \* labels waiting for the next unit
    Symbols,                    \* the symbols visited, in order
    defined,                    \* symbols that have a fragment
    lines,                      \* units written: [bytes, labels, stretch]
    kue, xok,                   \* the symbols exported and imported, each by a
                                \* statement of its own
    client,                     \* what AsmPrinter does next
    stretch,                    \* history: how often the section has changed
    sent,                       \* history: the bytes AsmPrinter has emitted
    referred                    \* history: the symbols its instructions refer to

streamer == <<section, CurrentAlignmentToValue, ValueBuffer, LabelToEmit,
              Symbols, defined, lines, kue, xok>>
vars == <<streamer, client, stretch, sent, referred>>

Visited == {Symbols[i] : i \in DOMAIN Symbols}

\* visitUsedSymbol: isRegistered keeps a symbol from being listed twice.
Visiting(s) == IF s = None \/ s \in Visited THEN Symbols ELSE Append(Symbols, s)

\* One directive, or one instruction, takes all waiting labels.
Line(bytes) == [bytes |-> bytes, labels |-> LabelToEmit, stretch |-> stretch]

\* The lines and labels flushValues leaves: a held-back directive is completed
\* with zeros.
Padded == ValueBuffer \o [i \in 1 .. CurrentAlignmentToValue - Len(ValueBuffer) |-> PadByte]
FlushedLines == IF ValueBuffer = << >> THEN lines ELSE Append(lines, Line(Padded))
FlushedLabels == IF ValueBuffer = << >> THEN LabelToEmit ELSE << >>

\* Faulty: the alignment of the previous section stays in force.
FlushKeepsAlignment ==
    /\ lines' = FlushedLines /\ LabelToEmit' = FlushedLabels
    /\ ValueBuffer' = << >>
    /\ UNCHANGED CurrentAlignmentToValue

FlushValues ==
    /\ lines' = FlushedLines /\ LabelToEmit' = FlushedLabels
    /\ ValueBuffer' = << >>
    /\ CurrentAlignmentToValue' = 1

\* Faulty: ChangeSection even if it is the section already current.
SwitchSectionAlways(s) ==
    /\ section' = s
    /\ stretch' = IF s = section THEN stretch ELSE stretch + 1
    /\ FlushValues

\* MCStreamer::SwitchSection, and ChangeSection.
SwitchSection(s) ==
    /\ section' = s
    /\ IF s = section
       THEN UNCHANGED <<lines, LabelToEmit, ValueBuffer, CurrentAlignmentToValue, stretch>>
       ELSE FlushValues /\ stretch' = stretch + 1

-----------------------------------------------------------------------------
(* AsmPrinter. *)

Idle == [at |-> "next", globals |-> FALSE, items |-> 0, sym |-> None,
         align |-> 1, parts |-> << >>, done |-> 0]

Init ==
    /\ section = "none"
    /\ CurrentAlignmentToValue = Unset
    /\ ValueBuffer = << >> /\ LabelToEmit = << >>
    /\ Symbols = << >> /\ defined = {}
    /\ lines = << >> /\ kue = {} /\ xok = << >>
    /\ client = [Idle EXCEPT !.at = "start"]
    /\ stretch = 0 /\ sent = << >> /\ referred = {}

\* doInitialization: InitSections.
InitSections ==
    /\ client.at = "start"
    /\ SwitchSection(TextSection)
    /\ client' = Idle
    /\ UNCHANGED <<Symbols, defined, kue, xok, sent, referred>>

\* EmitFunctionHeader.  2003f functions have no alignment directive.
BeginFunction(f) ==
    /\ client.at = "next" /\ ~client.globals
    /\ client.items < MaxItems /\ f \notin defined
    /\ SwitchSection(TextSection)
    /\ client' = [client EXCEPT !.at = "linkage", !.items = @ + 1, !.sym = f,
                                !.align = 1, !.parts = << >>, !.done = 0]
    /\ UNCHANGED <<Symbols, defined, kue, xok, sent, referred>>

\* EmitGlobalVariable.  doFinalization emits the globals after the functions.
BeginGlobal(g, o) ==
    /\ client.at = "next"
    /\ client.items < MaxItems /\ g \notin defined
    /\ SwitchSection(o.section)
    /\ client' = [client EXCEPT !.at = "linkage", !.globals = TRUE, !.items = @ + 1,
                                !.sym = g, !.align = o.align, !.parts = o.parts, !.done = 0]
    /\ UNCHANGED <<Symbols, defined, kue, xok, sent, referred>>

\* EmitLinkage: external symbols are exported with kue; for weak ones the
\* attribute is not supported but the symbol is visited; internal ones skip.
EmitLinkage(linkage) ==
    /\ client.at = "linkage"
    /\ Symbols' = IF linkage = "internal" THEN Symbols ELSE Visiting(client.sym)
    /\ kue' = IF linkage = "external" THEN kue \cup {client.sym} ELSE kue
    /\ client' = [client EXCEPT !.at = "align"]
    /\ UNCHANGED <<section, CurrentAlignmentToValue, ValueBuffer, LabelToEmit,
                   defined, lines, xok, stretch, sent, referred>>

\* Only directives of up to four bytes are written.
EmitValueToAlignment(align) ==
    IF align \in {1, 2, 4} THEN align ELSE IF align % 4 = 0 THEN 4 ELSE 1

\* EmitAlignment does nothing for an alignment of 1.
EmitAlignment ==
    /\ client.at = "align"
    /\ CurrentAlignmentToValue' = IF client.align = 1 THEN CurrentAlignmentToValue
                                  ELSE EmitValueToAlignment(client.align)
    /\ client' = [client EXCEPT !.at = "label"]
    /\ UNCHANGED <<section, ValueBuffer, LabelToEmit, Symbols, defined, lines,
                   kue, xok, stretch, sent, referred>>

\* Faulty: EmitLabel without its assertion.
EmitLabelUnchecked ==
    /\ client.at = "label"
    /\ Symbols' = Visiting(client.sym)
    /\ defined' = defined \cup {client.sym}
    /\ LabelToEmit' = Append(LabelToEmit, client.sym)
    /\ client' = [client EXCEPT !.at = "body"]
    /\ UNCHANGED <<section, CurrentAlignmentToValue, ValueBuffer, lines,
                   kue, xok, stretch, sent, referred>>

\* EmitLabel, which asserts "Label is not aligned!".
EmitLabel ==
    /\ client.at = "label"
    /\ IF ValueBuffer = << >>
       THEN /\ Symbols' = Visiting(client.sym)
            /\ defined' = defined \cup {client.sym}
            /\ LabelToEmit' = Append(LabelToEmit, client.sym)
            /\ client' = [client EXCEPT !.at = "body"]
       ELSE /\ client' = [client EXCEPT !.at = "assert"]
            /\ UNCHANGED <<Symbols, defined, LabelToEmit>>
    /\ UNCHANGED <<section, CurrentAlignmentToValue, ValueBuffer, lines,
                   kue, xok, stretch, sent, referred>>

FlushLabel == LabelToEmit' = << >>

\* EmitInstruction, with an operand that refers to the symbol ref.
EmitInstruction(ref) ==
    LET inst == << <<client.sym, client.done + 1>> >>
    IN  /\ client.at = "body" /\ ~client.globals /\ client.done < MaxInsts
        /\ Symbols' = Visiting(ref)
        /\ lines' = Append(lines, Line(inst))
        /\ FlushLabel
        /\ client' = [client EXCEPT !.done = @ + 1]
        /\ sent' = sent \o inst
        /\ referred' = referred \cup ({ref} \ {None})
        /\ UNCHANGED <<section, CurrentAlignmentToValue, ValueBuffer, defined, kue,
                       xok, stretch>>

\* The directives the loop of EmitValueImpl completes, and what it holds back:
\* it compares the size of the buffer with the alignment after every byte.
Units(bytes, width) ==
    [u \in 1 .. Len(bytes) \div width |-> SubSeq(bytes, (u - 1) * width + 1, u * width)]
Rest(bytes, width) ==
    SubSeq(bytes, (Len(bytes) \div width) * width + 1, Len(bytes))

\* Faulty: the completed directive stays in the buffer.
PackKeepsBuffer(bytes) ==
    LET all == ValueBuffer \o bytes
        width == CurrentAlignmentToValue
    IN  [units |-> Units(all, width), rest |-> IF Len(all) % width = 0 THEN all
                                               ELSE Rest(all, width)]

Pack(bytes) ==
    LET all == ValueBuffer \o bytes
        width == CurrentAlignmentToValue
    IN  IF Len(ValueBuffer) >= width THEN [units |-> << >>, rest |-> all]
        ELSE [units |-> Units(all, width), rest |-> Rest(all, width)]

\* EmitValueImpl, for the next part of the initialiser: written at once if it
\* is as wide as the alignment, else packed byte by byte, which only a
\* constant can be.
EmitValue ==
    /\ client.at = "body" /\ client.parts # << >>
    /\ LET part == Head(client.parts)
           bytes == [i \in 1 .. part.size |-> <<client.sym, client.done + i>>]
           whole == CurrentAlignmentToValue = part.size /\ ValueBuffer = << >>
           packed == IF whole THEN [units |-> <<bytes>>, rest |-> << >>] ELSE Pack(bytes)
       IN  IF ~whole /\ part.ref # None
           THEN /\ client' = [client EXCEPT !.at = "fatal"]
                /\ UNCHANGED <<lines, LabelToEmit, ValueBuffer, sent>>
           ELSE /\ lines' = lines \o [u \in DOMAIN packed.units |->
                                        [Line(packed.units[u]) EXCEPT
                                            !.labels = IF u = 1 THEN @ ELSE << >>]]
                /\ LabelToEmit' = IF packed.units = << >> THEN LabelToEmit ELSE << >>
                /\ ValueBuffer' = packed.rest
                /\ sent' = sent \o bytes
                /\ client' = [client EXCEPT !.parts = Tail(@), !.done = @ + part.size]
    /\ UNCHANGED <<section, CurrentAlignmentToValue, Symbols, defined, kue, xok,
                   stretch, referred>>

EndItem ==
    /\ client.at = "body" /\ client.parts = << >>
    /\ client' = [client EXCEPT !.at = "next"]
    /\ UNCHANGED <<streamer, stretch, sent, referred>>

\* Faulty: every symbol visited is imported.
ImportsVisited == Symbols

\* What is left of s without the elements of D (SelectSeq, as a definition the
\* provers can expand).
Without(s, D) ==
    FlattenSeq([i \in DOMAIN s |-> IF s[i] \in D THEN << >> ELSE <<s[i]>>])

\* Undefined symbols among those visited, in that order.
Imports == Without(Symbols, defined)

\* flushLabel(true) does not end the line it writes, fen and the labels: the
\* first import comes right behind the last label, and what stands there is
\* neither of them ("fen l' oxok s" for the label o and the import s).
RunTogether == FlushedLabels # << >> /\ Imports # << >>

\* FinishImpl: flush, put labels at the very end on a fen line, import.
Finish ==
    /\ client.at = "next"
    /\ lines' = IF FlushedLabels = << >> THEN FlushedLines
                ELSE Append(FlushedLines,
                        [bytes |-> << >>, stretch |-> stretch,
                         labels |-> IF RunTogether THEN Front(FlushedLabels)
                                    ELSE FlushedLabels])
    /\ ValueBuffer' = << >> /\ LabelToEmit' = << >> /\ CurrentAlignmentToValue' = 1
    /\ xok' = IF RunTogether THEN Tail(Imports) ELSE Imports
    /\ client' = [client EXCEPT !.at = "done"]
    /\ UNCHANGED <<section, Symbols, defined, kue, stretch, sent, referred>>

Stopped == client.at \in {"done", "assert", "fatal"} /\ UNCHANGED vars

Next ==
    \/ InitSections
    \/ \E f \in Symbol : BeginFunction(f)
    \/ \E g \in Symbol, o \in Object : BeginGlobal(g, o)
    \/ \E linkage \in {"external", "weak", "internal"} : EmitLinkage(linkage)
    \/ EmitAlignment
    \/ EmitLabel
    \/ \E ref \in Symbol \cup {None} : EmitInstruction(ref)
    \/ EmitValue
    \/ EndItem
    \/ Finish
    \/ Stopped

Spec == Init /\ [][Next]_vars

-----------------------------------------------------------------------------
(* Properties. *)

\* While values are emitted, the alignment has been set since the streamer
\* was created, and the held-back bytes are fewer than it: were they not, the
\* test for equality in EmitValueImpl would never hold again and the rest of
\* the section would pile up in the buffer.
BufferFits ==
    client.at = "body" =>
        /\ CurrentAlignmentToValue # Unset
        /\ Len(ValueBuffer) < CurrentAlignmentToValue

Written == FlattenSeq([i \in DOMAIN lines |-> lines[i].bytes])

\* The bytes AsmPrinter emitted appear in the output, all of them, in order
\* and once, with nothing but padding between them, in units of a width the
\* assembly language has.
BytesInOrder ==
    /\ Without(Written, {PadByte}) \o ValueBuffer = sent
    /\ \A i \in DOMAIN lines : Len(lines[i].bytes) \in {0, 1, 2, 4}

\* The one case in which a label and an import are lost: the last item of the
\* module has no bytes, so its label waits for the end of the file, and the
\* file ends with imports.
EndsOpen ==
    /\ client.at = "done" /\ client.sym \in defined
    /\ ~ \E k \in DOMAIN sent : sent[k] = <<client.sym, 1>>
    /\ referred \ defined # {}

\* Every label stands on the unit that starts with the first byte, or is the
\* first instruction, of what it names; an object with no bytes lends its
\* label to what follows.  No label is written twice, and none is lost but
\* that of an empty object which FinishImpl runs together with an import.
LabelsMarkObjects ==
    /\ \A i \in DOMAIN lines : \A j \in DOMAIN lines[i].labels :
           LET s == lines[i].labels[j]
           IN  (\E k \in DOMAIN sent : sent[k] = <<s, 1>>)
                   => lines[i].bytes # << >> /\ lines[i].bytes[1] = <<s, 1>>
    /\ \A s \in defined :
           LET waits == \E j \in DOMAIN LabelToEmit : LabelToEmit[j] = s
               lost == EndsOpen /\ s = client.sym
           IN  Cardinality({place \in (DOMAIN lines) \X (1 .. MaxItems) :
                               /\ place[2] \in DOMAIN lines[place[1]].labels
                               /\ lines[place[1]].labels[place[2]] = s})
                   = IF waits \/ lost THEN 0 ELSE 1

\* A global is never padded in the middle of its section: only the last
\* directive before a change of section, or the end, may be.
PaddingEndsSection ==
    \A i \in DOMAIN lines :
        (\E b \in DOMAIN lines[i].bytes : lines[i].bytes[b] = PadByte) /\ i < Len(lines)
            => lines[i + 1].stretch # lines[i].stretch

\* Once the file is finished, the symbols instructions refer to and no label of
\* the module defines are imported, and nothing else, each once, whether they
\* were referred to before or after the place of the missing definition.  None
\* is missing but the one that is run together with a label.
ImportsAreUndefined ==
    client.at = "done" =>
        /\ \A i \in DOMAIN xok : xok[i] \in referred \ defined
        /\ \A i, j \in DOMAIN xok : xok[i] = xok[j] => i = j
        /\ Cardinality(referred \ defined) = Len(xok) + (IF EndsOpen THEN 1 ELSE 0)

\* What one would expect of the end of the file, and FinishImpl does not do:
\* every label is written, and every undefined symbol imported.
NothingLostAtEnd ==
    client.at = "done" =>
        /\ \A s \in defined : \E i \in DOMAIN lines :
               \E j \in DOMAIN lines[i].labels : lines[i].labels[j] = s
        /\ referred \ defined = {xok[i] : i \in DOMAIN xok}

\* What EmitLabel asserts of its caller.
LabelIsAligned == client.at # "assert"
=============================================================================
