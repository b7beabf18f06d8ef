-------------------------------- MODULE Ledger --------------------------------
(***************************************************************************)
(* The in-memory causal ledger, one exact scope: what intake promises when *)
(* every command is a single step under a mutex (Ledger.Observe).  The     *)
(* relational stores have to implement it (see CausalIntake).              *)
(***************************************************************************)
CONSTANTS
    Source,   \* source refs
    Content,  \* immutable content of a source: actor, text, Constitution
    Group     \* exact groups: run ref and source group ref

VARIABLES
    events,   \* admitted SourceEvents
    links     \* typed provenance links of all groups

ledgerVars == <<events, links>>

Role == {"situation", "agent_act", "outcome"}
Event == [source : Source, content : Content]
Link == [group : Group, source : Source, role : Role]

LedgerTypeOK == events \subseteq Event /\ links \subseteq Link

LedgerInit == events = {} /\ links = {}

\* snapshot: a situation and an actual agent act, from distinct sources.
Materialized(ls, g) ==
    \E s, a \in ls : /\ s.group = g /\ s.role = "situation"
                     /\ a.group = g /\ a.role = "agent_act"
                     /\ s.source # a.source

Admissible(ev) == \A e \in events : e.source = ev.source => e = ev

\* A materialized Episode accepts existing links and new outcomes only.
Unsealed(l) == l \in links \/ l.role = "outcome" \/ ~Materialized(links, l.group)

\* Observe with an incomplete binding admits the source alone.
Admit(ev) ==
    /\ Admissible(ev)
    /\ events' = events \cup {ev}
    /\ UNCHANGED links

Observe(ev, l) ==
    /\ l.source = ev.source
    /\ Admissible(ev)
    /\ Unsealed(l)
    /\ events' = events \cup {ev}
    /\ links' = links \cup {l}

LedgerNext ==
    \E ev \in Event : \/ Admit(ev)
                      \/ \E l \in Link : Observe(ev, l)

LedgerSpec == LedgerInit /\ [][LedgerNext]_ledgerVars

=============================================================================
