-------------------------- MODULE ConfigPortability --------------------------
(***************************************************************************)
(* Export and import of the connections and flows of one administrator.    *)
(* The file names connections by their names, which need not be unique.    *)
(* An import skips what is there by name; its inserts become visible       *)
(* together, but the names that are there are read before.  A flow may     *)
(* use the connections of others, which the file does not hold.            *)
(***************************************************************************)
EXTENDS Naturals, FiniteSets

CONSTANTS
    Ids,      \* primary keys
    Names,    \* of connections and of flows
    Imports,  \* requests that import at a time
    MaxFlows, \* bound: flows made by hand
    None

VARIABLES
    conns,      \* [Ids -> the connection, or None]
    flows,      \* the user's flows: [name, src, dst], src and dst in Ids
    file,       \* the exported file, or None
    import,     \* [Imports -> the request]
    disturbed  \* the account has changed during an import

vars == <<conns, flows, file, import, disturbed>>

\* own: of the user; the others' are there for flows only.
Conns == [name : Names, own : BOOLEAN]

\* known: the connection names an import has found.
TypeOK ==
    /\ conns \in [Ids -> Conns \cup {None}]
    /\ flows \subseteq [name : Names, src : Ids, dst : Ids]
    /\ file = None \/ file \in [conns : SUBSET Names,
                                flows : SUBSET [name : Names, src : Names, dst : Names]]
    /\ import \in [Imports -> [reading : BOOLEAN, known : SUBSET Names]]
    /\ disturbed \in BOOLEAN

Idle == [reading |-> FALSE, known |-> {}]

Init ==
    /\ conns = [i \in Ids |-> None]
    /\ flows = {}
    /\ file = None
    /\ import = [r \in Imports |-> Idle]
    /\ disturbed = FALSE

Own(cs) == {i \in Ids : cs[i] # None /\ cs[i].own}
Named(cs, n) == {i \in Own(cs) : cs[i].name = n}
Importing == \E r \in Imports : import[r].reading
Disturbs == disturbed' = (disturbed \/ Importing)

-----------------------------------------------------------------------------
(* The administrators *)

CreateConnection(i, c) ==
    /\ conns[i] = None
    /\ conns' = [conns EXCEPT ![i] = c]
    /\ Disturbs
    /\ UNCHANGED <<flows, file, import>>

\* Its flows go with it.
DeleteConnection(i) ==
    /\ conns[i] # None
    /\ conns' = [conns EXCEPT ![i] = None]
    /\ flows' = {f \in flows : i \notin {f.src, f.dst}}
    /\ Disturbs
    /\ UNCHANGED <<file, import>>

\* The form offers the connections of every owner.
CreateFlow(n, s, d) ==
    /\ Cardinality(flows) < MaxFlows
    /\ conns[s] # None /\ conns[d] # None
    /\ flows' = flows \cup {[name |-> n, src |-> s, dst |-> d]}
    /\ Disturbs
    /\ UNCHANGED <<conns, file, import>>

-----------------------------------------------------------------------------
(* export_config, import_config *)

Export ==
    /\ file' = [conns |-> {conns[i].name : i \in Own(conns)},
                flows |-> {[name |-> f.name, src |-> conns[f.src].name, dst |-> conns[f.dst].name] :
                           f \in flows}]
    /\ UNCHANGED <<conns, flows, import, disturbed>>

\* The passphrase is right; the names that are there are read.
ImportBegins(r) ==
    /\ ~import[r].reading /\ file # None
    /\ import' = [import EXCEPT ![r] = [reading |-> TRUE,
                                        known |-> {conns[i].name : i \in Own(conns)}]]
    /\ Disturbs
    /\ UNCHANGED <<conns, flows, file>>

\* A secret does not decrypt, a field is missing, the request dies: rolled back.
ImportFails(r) ==
    /\ import[r].reading
    /\ import' = [import EXCEPT ![r] = Idle]
    /\ UNCHANGED <<conns, flows, file, disturbed>>

NewNames(r) == file.conns \ import[r].known

\* _import_connections: one of each new name.
ImportedConnections(cs, r) ==
    \E id \in [NewNames(r) -> {i \in Ids : conns[i] = None}] :
        /\ \A m, n \in NewNames(r) : id[m] = id[n] => m = n
        /\ cs = [i \in Ids |-> IF \E n \in NewNames(r) : id[n] = i
                               THEN [name |-> CHOOSE n \in NewNames(r) : id[n] = i,
                                     own |-> TRUE]
                               ELSE conns[i]]

\* A faulty variant: only the connections just added are in the map.
ConnMapOfNew(cs, at) ==
    \A n \in Names : LET new == {i \in Named(cs, n) : conns[i] = None} IN
                     IF new = {} THEN at[n] = None ELSE at[n] \in new

\* The map of the user's connections by name, one of several of a name.
ConnMap(cs, at) ==
    \A n \in Names : IF Named(cs, n) = {} THEN at[n] = None ELSE at[n] \in Named(cs, n)

\* _import_flows: skipped by name, the first of a name is taken, and unresolved
\* when an end is not in the map.
ImportedFlows(at, new) ==
    LET open == {f \in file.flows : /\ \A g \in flows : g.name # f.name
                                    /\ None \notin {at[f.src], at[f.dst]}}
    IN /\ new \subseteq open
       /\ \A f \in open : Cardinality({g \in new : g.name = f.name}) = 1

ImportCommits(r) ==
    /\ import[r].reading
    /\ \E at \in [Names -> Ids \cup {None}], new \in SUBSET file.flows :
         /\ ImportedConnections(conns', r) /\ ConnMap(conns', at) /\ ImportedFlows(at, new)
         /\ flows' = flows \cup {[f EXCEPT !.src = at[f.src], !.dst = at[f.dst]] : f \in new}
    /\ import' = [import EXCEPT ![r] = Idle]
    /\ UNCHANGED <<file, disturbed>>

Next ==
    \/ \E i \in Ids, c \in Conns : CreateConnection(i, c)
    \/ \E i \in Ids : DeleteConnection(i)
    \/ \E n \in Names, s, d \in Ids : CreateFlow(n, s, d)
    \/ Export
    \/ \E r \in Imports : ImportBegins(r) \/ ImportFails(r) \/ ImportCommits(r)

Spec == Init /\ [][Next]_vars

-----------------------------------------------------------------------------
(* Properties *)

\* After an import that nothing disturbed every connection of the file is there by
\* name, and so is every flow whose ends are: only a flow that used another
\* administrator's connection stays behind.
ImportIsComplete ==
    [][\A r \in Imports :
         import[r].reading /\ (conns' # conns \/ flows' # flows) /\ ~disturbed' =>
            /\ \A n \in file.conns : Named(conns', n) # {}
            /\ \A f \in file.flows :
                 {f.src, f.dst} \subseteq file.conns => \E g \in flows' : g.name = f.name]_vars

=============================================================================
