--------------------------- MODULE MCUpliCreditLoop ---------------------------
EXTENDS UpliHardware

\* Ports that take different times to publish, with accounts without storage between
\* others; only the first has a pool, of more than a batch.
MCTwoPorts == [p \in Ports |-> [a \in 0..Pool |-> CASE p = 0 /\ a = 0 -> 1
                                                    [] p = 0 /\ a = Pool -> 3
                                                    [] p # 0 /\ a = 1 -> 1
                                                    [] OTHER -> 0]]
===============================================================================
