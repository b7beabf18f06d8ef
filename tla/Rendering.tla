------------------------------ MODULE Rendering ------------------------------
(***************************************************************************)
(* render_memory_context of the Python SDK: the items of a MemoryContext,  *)
(* in the order of its sections, taken one by one while the whole text     *)
(* stays within the token budget (sdk/python/src/memory_core/rendering.py).*)
(***************************************************************************)
EXTENDS SequencesExt

CONSTANTS
    MaxTokens,      \* max_tokens
    None

ASSUME BudgetAssumption == MaxTokens \in Nat

(***************************************************************************)
(* render_memory_context.  An item has a section, a ref, a scope label, a  *)
(* size and a text that may be blank; a text of several items costs their  *)
(* sizes and one token for every heading.                                  *)
(***************************************************************************)
Scoped == {"RECOLLECTIONS", "DISPOSITIONS"}

\* Blank texts are skipped before anything else is looked at.
VisibleAt(items) == {n \in DOMAIN items : ~items[n].blank}

VisibleRefs(items) == {items[n].ref : n \in VisibleAt(items)}

\* What raises instead of being rendered.
Renderable(items) ==
    /\ \A m, n \in VisibleAt(items) : items[m].ref = items[n].ref => m = n
    /\ \A n \in VisibleAt(items) :
          items[n].ref # None /\ (items[n].section \in Scoped => items[n].scope # None)

\* What Core answers a Select with: a memory once, and with its scope; the renderer
\* takes nothing else.
Selectable(selected) ==
    /\ \A items \in {selected.recollections, selected.dispositions} : items \in Seq(ToSet(items))
    /\ Renderable(selected.recollections \o selected.dispositions)

TokenCount(items) ==
    LET size[n \in 0 .. Len(items)] == IF n = 0 THEN 0 ELSE size[n - 1] + items[n].size
    IN  size[Len(items)] + Cardinality({items[n].section : n \in DOMAIN items})

Fits(items) == TokenCount(items) <= MaxTokens

\* Variant: the budget is only checked against the item itself.
RenderItemwise(items) == SelectSeq(items, LAMBDA it : ~it.blank /\ Fits(<<it>>))

\* An item that does not fit is left out ...
WithItem(taken, item) ==
    IF ~item.blank /\ Fits(Append(taken, item)) THEN Append(taken, item) ELSE taken

\* ... and later ones are still tried.
Render(items) ==
    LET taken[n \in 0 .. Len(items)] ==
            IF n = 0 THEN <<>> ELSE WithItem(taken[n - 1], items[n])
    IN  taken[Len(items)]

Refs(items) == [i \in DOMAIN items |-> items[i].ref]

=============================================================================
