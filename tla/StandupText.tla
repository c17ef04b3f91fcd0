---------------------------- MODULE StandupText ----------------------------
(***************************************************************************)
(* The lines of a standup file (autostand-core format.rs) and the two edits *)
(* of fileops.rs, on any text that merges and users leave behind: regions   *)
(* twice, in any order, empty, with lines of nobody between them.           *)
(***************************************************************************)
EXTENDS Integers, SequencesExt

CONSTANTS Hosts,      \* a peer among them
          Lines,      \* lines with something on them
          MaxBody,    \* bound: lines of a body
          MaxChunks   \* bound: regions and loose lines of a text

\* Lines: the two markers of a region, of a host or MANUAL, and all others.
Manual == "MANUAL"
Outside == "outside"

\* The names of the regions, and the lines, are told apart.
ASSUME LayoutAssumption ==
    /\ MaxBody \in Nat /\ MaxChunks \in Nat
    /\ Manual \notin Hosts /\ Outside \notin Hosts
    /\ "" \notin Lines

Open(r) == <<"open", r>>
Close(r) == <<"close", r>>
Line(x) == <<"line", x>>
Empty == Line("")

(***************************************************************************)
(* parse                                                                   *)
(***************************************************************************)

Start == [region |-> Outside, body |-> <<>>, blocks |-> <<>>, manual |-> <<>>]

\* Mutant: the newline is put in front of the first line too.
GrowAlways(body, line) == IF body = <<>> THEN <<Empty, line>> ELSE Append(body, line)

\* A body starts with its first line that is not empty.
Grow(body, line) == IF body = <<>> /\ line = Empty THEN body ELSE Append(body, line)

\* Mutant: the last block of a host is kept.
CollapseToLast(blocks, block) ==
    IF \E i \in DOMAIN blocks : blocks[i].host = block.host
    THEN [i \in DOMAIN blocks |-> IF blocks[i].host = block.host THEN block ELSE blocks[i]]
    ELSE Append(blocks, block)

\* Of the blocks of one host the first with a body is kept.
Collapse(blocks, block) ==
    IF \E i \in DOMAIN blocks : blocks[i].host = block.host
    THEN [i \in DOMAIN blocks |->
            IF blocks[i].host = block.host /\ blocks[i].body = <<>> THEN block ELSE blocks[i]]
    ELSE Append(blocks, block)

\* A region that is closed, or that the text ends in.
Finish(p) ==
    CASE p.region = Outside -> p
      [] p.region = Manual  -> [p EXCEPT !.region = Outside, !.manual = p.body]
      [] OTHER -> [p EXCEPT !.region = Outside,
                            !.blocks = Collapse(@, [host |-> p.region, body |-> p.body])]

\* Outside of a region only an opening marker counts; inside, only its own closing one.
Consume(p, line) ==
    CASE p.region = Outside /\ line[1] = "open" ->
            [p EXCEPT !.region = line[2], !.body = <<>>]
      [] p.region = Outside /\ line[1] # "open" -> p
      [] p.region # Outside /\ line = Close(p.region) -> Finish(p)
      [] OTHER -> [p EXCEPT !.body = Grow(@, line)]

\* The loop over the lines, from p.
Run(p, lines) ==
    LET upTo[n \in 0 .. Len(lines)] == IF n = 0 THEN p ELSE Consume(upTo[n - 1], lines[n])
    IN  upTo[Len(lines)]

\* The first two lines are the title and the subtitle, whatever they are.
Parse(text) == Finish(Run(Start, SubSeq(text, 3, Len(text))))

(***************************************************************************)
(* render and the edits                                                    *)
(***************************************************************************)

Head3 == <<Line("title"), Line("subtitle"), Empty>>

RegionText(r, body) == <<Open(r)>> \o body \o <<Close(r)>>

Render(p) ==
    Head3 \o FlattenSeq([i \in DOMAIN p.blocks |->
                            RegionText(p.blocks[i].host, p.blocks[i].body) \o <<Empty>>])
          \o RegionText(Manual, p.manual)

WithBlock(p, host, body) ==
    [p EXCEPT !.blocks =
        IF \E i \in DOMAIN @ : @[i].host = host
        THEN [i \in DOMAIN @ |-> IF @[i].host = host THEN [@[i] EXCEPT !.body = body] ELSE @[i]]
        ELSE Append(@, [host |-> host, body |-> body])]

\* set_auto, of a text that has something in it or of none.
SetAutoIn(text, host, body) ==
    Render(WithBlock(IF text = <<>> THEN Start ELSE Parse(text), host, body))

\* add_manual; its skeleton has the block of a host "default".
AddManualTo(text, item) ==
    LET p == IF text = <<>> THEN WithBlock(Start, "default", <<>>) ELSE Parse(text)
    IN  Render([p EXCEPT !.manual = Append(@, item)])

(***************************************************************************)
(* What they should do                                                     *)
(***************************************************************************)

\* A body, with blanks anywhere; the empty one has no line.
BodyLines == {Empty} \cup {Line(x) : x \in Lines}
RegionBodies == BoundedSeq(BodyLines, MaxBody)
WrittenBodies == RegionBodies \ {<<Empty>>}

\* Texts put together from whole regions and lines of nobody.
Chunks == [region : Hosts \cup {Manual}, body : RegionBodies]
          \cup [region : {Outside}, body : {<<Line(x)>> : x \in Lines}]

ChunkText(c) == IF c.region = Outside THEN c.body ELSE RegionText(c.region, c.body)

TextOfChunks(cs) == Head3 \o FlattenSeq([i \in DOMAIN cs |-> ChunkText(cs[i])])

\* What an edit may find: such a text, or no file.
Found(cs) == {TextOfChunks(cs)} \cup (IF cs = <<>> THEN {<<>>} ELSE {})

First(places) == CHOOSE i \in places : \A j \in places : i <= j

Visible(body) == {i \in DOMAIN body : body[i] # Empty}

\* A body from its first line that shows anything.
Trimmed(body) ==
    IF Visible(body) = {} THEN <<>> ELSE SubSeq(body, First(Visible(body)), Len(body))

\* What the first region of r that shows anything shows.
Filled(cs, r) == {i \in DOMAIN cs : cs[i].region = r /\ Visible(cs[i].body) # {}}
FirstShown(cs, r) == IF Filled(cs, r) = {} THEN <<>> ELSE Trimmed(cs[First(Filled(cs, r))].body)

Blocks(p, host) == {i \in DOMAIN p.blocks : p.blocks[i].host = host}
BodyOf(p, host) == IF Blocks(p, host) = {} THEN <<>> ELSE p.blocks[First(Blocks(p, host))].body

OneManual(cs) == \A i, j \in DOMAIN cs : cs[i].region = Manual /\ cs[j].region = Manual => i = j

\* What the regions of r show, as often as they show it.
Shows(cs, r) == {Trimmed(cs[i].body) : i \in Filled(cs, r)}

\* A host's block is kept, unless two of its regions show different things: then it shows one
\* of them, whole.  Where none shows anything the block stays empty.
Keeps(p, cs, others) ==
    \A h \in others : IF Shows(cs, h) = {} THEN BodyOf(p, h) = <<>> ELSE BodyOf(p, h) \in Shows(cs, h)

\* set_auto: the block of host shows the new body, and nothing else is touched.
SetAutoIsLocal(cs, text, host, body) ==
    LET p == Parse(SetAutoIn(text, host, body))
    IN  /\ BodyOf(p, host) = Trimmed(body)
        /\ Keeps(p, cs, Hosts \ {host})
        /\ OneManual(cs) => p.manual = FirstShown(cs, Manual)

\* add_manual: the item comes last in MANUAL, and no block is touched.
AddManualIsLocal(cs, text, item) ==
    LET p == Parse(AddManualTo(text, item))
    IN  /\ Keeps(p, cs, Hosts)
        /\ OneManual(cs) => p.manual = Append(FirstShown(cs, Manual), item)

\* Neither edit mixes, empties or fills what is not its own: what all regions of a host show is
\* kept, and so is the MANUAL region where there is one.  This is less than the documents
\* promise: of regions that differ only one survives, for MANUAL the last, where
\* standup-file-format.md:244 has the blocks of a host merged.
EditsAreLocal ==
    \A cs \in BoundedSeq(Chunks, MaxChunks) :
        \A text \in Found(cs) :
            /\ \A h \in Hosts, body \in WrittenBodies : SetAutoIsLocal(cs, text, h, body)
            /\ \A x \in Lines : AddManualIsLocal(cs, text, Line(x))

\* A second compile with the same body leaves the very same text: nothing for git to commit.
EditsSettle ==
    \A cs \in BoundedSeq(Chunks, MaxChunks), h \in Hosts, body \in WrittenBodies :
        \A text \in Found(cs) :
            LET once == SetAutoIn(text, h, body)
            IN  SetAutoIn(once, h, body) = once

=============================================================================
