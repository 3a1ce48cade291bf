------------------------------ MODULE GMChain ------------------------------
(***************************************************************************)
(* The gamemaster lists along a chain of valid blocks: what the list is    *)
(* for, apart from how a node stores it.  A block is connected if          *)
(* CheckSpecialTx accepts its transactions with the list of its parent and *)
(* BuildNewListFromBlock succeeds.                                         *)
(***************************************************************************)
EXTENDS GMBlock

CONSTANT MaxHeight

VARIABLES
    chain,      \* the active chain: its last block
    history     \* history[n + 1]: the list of its block of height n

vars == <<chain, history>>

Init ==
    /\ chain = Start
    /\ history = ListsOf(Start)

ConnectBlock(c) ==
    LET b == Append(chain, c)
        old == Last(history)
        quorum == IF QuorumBlock(b) = b THEN EmptyList
                  ELSE history[QuorumHeight(Height(b)) + 1]
        new == BuildNewListFromBlock(old, Height(b), Txs(b), quorum)
    IN  /\ Height(b) <= MaxHeight
        /\ Minable(chain, c)
        /\ \A tx \in Range(Txs(b)) : CheckSpecialTx(old, b, tx)
        /\ Ok(new)
        /\ chain' = b
        /\ history' = Append(history, new)

DisconnectBlock ==
    /\ chain # Start
    /\ chain' = Front(chain)
    /\ history' = Front(history)

Next == (\E c \in DOMAIN Contents : ConnectBlock(c)) \/ DisconnectBlock

Spec == Init /\ [][Next]_vars
-----------------------------------------------------------------------------
At(n) == history[n + 1]
Heights == 0 .. Height(chain)

\* The unique-property map is what the gamemasters imply: every listed
\* gamemaster holds each of its properties, once, and nobody else holds any.
\* So the checks for duplicates, which look only at the map, see all of them.
UniquePropertiesExact == PropertiesExact(Last(history))

\* A gamemaster that is not banned has a service address and an operator key:
\* registering without an address, a new operator key and a revocation ban it
\* until a service update that finds a key revives it.
ValidHasService ==
    \A h \in ValidGMs(Last(history)) :
        LET st == Last(history).gmMap[h].state
        IN  st.addr # Null /\ st.operator # Null

Paid(n) == GetGMPayee(At(n - 1))

\* Payments go round: between two payments to x, every gamemaster that stays
\* valid, and is not revived meanwhile, is paid.
RoundRobin ==
    \A m, n \in Heights \ {0} : \A x \in Paid(m) \cap Paid(n) :
        m < n =>
        \A y \in ValidGMs(At(m - 1)) \ {x} :
            (\A k \in m .. n - 1 : /\ y \in ValidGMs(At(k))
                                   /\ At(k).gmMap[y].state.revivedHeight < m)
            => \E k \in m .. n - 1 : y \in Paid(k)

Punished(n) ==
    LET invalid == UNION {tx.invalid : tx \in {tx \in Range(Contents[chain[n]]) :
                                                   tx.type = "LLMQCOMM"}}
    IN  CalculateQuorum(At(QuorumHeight(n))) \cap invalid \cap DOMAIN At(n).gmMap

Registered(n) ==
    {tx.hash : tx \in {tx \in Range(Contents[chain[n]]) : tx.type = "PROREG"}}

\* "The idea is to immediately ban a GM when it fails 2 DKG sessions with only
\* a few blocks in-between": a gamemaster punished by two blocks at most 30
\* apart, and not revived from the first on, is banned.  The maximal penalty
\* grows with a list of more than 100, and a penalty of before does not.
PunishedTwiceIsBanned ==
    \A m, n \in Heights \ {0} : \A x \in Punished(m) \cap Punished(n) :
        /\ m < n /\ n <= m + 30
        /\ At(n).gmMap[x].state.revivedHeight < m
        /\ Cardinality(DOMAIN At(n - 1).gmMap \cup Registered(n)) <= 100
        => IsPoSeBanned(At(n).gmMap[x])
=============================================================================
