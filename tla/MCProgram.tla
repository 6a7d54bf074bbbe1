----------------------------- MODULE MCProgram ------------------------------
(* Small instances of Program for TLC: the program's two workflows, and names
   of which two differ in case only. *)
EXTENDS Program

CONSTANTS cataloger, storepruner, alice, Alice, bob

\* The cataloger's interval is below its minimum; the pruner has no maximum.
MCInterval == [w \in Workflows |-> IF w = cataloger THEN 1 ELSE 2]
MCMinDelay == [w \in Workflows |-> IF w = cataloger THEN 2 ELSE 1]
MCMaxDelay == [w \in Workflows |-> IF w = cataloger THEN 4 ELSE 0]

\* The shortest and the longest delay that jitter can make.
MCJitters == {-50, 50}

\* The cataloger's bounds and jitter, in tenths of a second, and its shortest
\* interval.
MCShortest == [w \in Workflows |-> 100]
MCHour == [w \in Workflows |-> 36000]
MCTenth == {-5, 0, 5}

MCFold == [n \in AccountNames |-> IF n = Alice THEN alice ELSE n]

MCAccount(kind, id, name) == [kind |-> kind, id |-> id, name |-> name]

\* Users and groups have IDs, and names, of their own.
MCAccounts == { MCAccount("users", 1, alice),
                MCAccount("groups", 1, bob), MCAccount("groups", 2, alice) }

\* Two groups that cannot be told apart by a name looked up ignoring case.
MCAmbiguous == { MCAccount("users", 1, alice),
                 MCAccount("groups", 1, alice), MCAccount("groups", 2, Alice) }

MCDirectories == { MCAccounts, MCAmbiguous }
MCOneDirectory == { MCAccounts }

\* A user given twice, and different groups.
MCPrincipals == [view   |-> [users |-> <<alice, Alice>>, groups |-> <<bob>>],
                 change |-> [users |-> <<>>, groups |-> <<alice>>]]
MCNoPrincipals == [r \in Rights |-> [k \in Kinds |-> <<>>]]
=============================================================================
