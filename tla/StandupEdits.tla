---------------------------- MODULE StandupEdits ----------------------------
(***************************************************************************)
(* What the locks, the base check and write_atomic promise of one standup   *)
(* file together: the edit of each writer happens at one instant, on the    *)
(* text that is there then, touches its own region and nothing else, and is *)
(* reported as saved at that instant or never.  The promise is for writers  *)
(* that do not cross; an add_manual may cross any other, and what the two   *)
(* then leave of the file is open.                                         *)
(***************************************************************************)
CONSTANTS Compiles,     \* compiles, each with work of its own
          Manuals,      \* the user's items
          Resolutions   \* regenerations, each with a candidate of its own

VARIABLES text,    \* what the file says: this host's bullets, the other host's block, items
          saved,   \* the compiles and the items that were reported written
          crossed  \* the writers that one of the others has crossed

editVars == <<text, saved, crossed>>

\* Nothing, or what another host has written.
EditsInit ==
    /\ \E p \in BOOLEAN : text = [auto |-> {}, peer |-> p, manual |-> {}]
    /\ saved = {}
    /\ crossed = {}

\* The bullets a worker starts from are those that are there, as long as nobody is crossed:
\* a write that was may still replace them under the lock.
Bullets == IF crossed = {} THEN {text.auto} ELSE SUBSET (Compiles \cup Resolutions)

\* A compile adds its work to them.
Compile(c) ==
    /\ c \notin saved \cup crossed
    /\ \E body \in Bullets : text' = [text EXCEPT !.auto = body \cup {c}]
    /\ saved' = saved \cup {c}
    /\ UNCHANGED crossed

AddItem(m) ==
    /\ m \notin saved \cup crossed
    /\ text' = [text EXCEPT !.manual = @ \cup {m}]
    /\ saved' = saved \cup {m}
    /\ UNCHANGED crossed

\* The user chooses among the bullets that are there and those of the candidate, as often
\* as the candidate outlives the attempt.
Choose(r) ==
    /\ r \notin crossed
    /\ \E shown \in Bullets : \E body \in SUBSET (shown \cup {r}) \ {{}} :
          text' = [text EXCEPT !.auto = body]
    /\ UNCHANGED <<saved, crossed>>

\* Writers cross, an item among them and at most one that holds the run lock.
Cross ==
    /\ crossed \subseteq crossed'
    /\ crossed' \cap Manuals # {}
    /\ \A u, v \in crossed' \ (crossed \cup Manuals) : u = v
    /\ UNCHANGED <<text, saved>>

\* What a crossed writer leaves in the file is open; it is reported like any other.
Garble(w) ==
    /\ w \in crossed
    /\ saved' \in {saved, saved \cup ({w} \ Resolutions)}
    /\ UNCHANGED crossed

EditsNext ==
    \/ \E c \in Compiles : Compile(c)
    \/ \E m \in Manuals : AddItem(m)
    \/ \E r \in Resolutions : Choose(r)
    \/ \E w \in crossed : Garble(w)
    \/ Cross

EditsSpec == EditsInit /\ [][EditsNext]_editVars

=============================================================================
