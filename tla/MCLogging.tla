---------------------------- MODULE MCLogging -------------------------------
(* Small instance: two module names, four logger objects (two per name)  *)
(* and --log_level vectors that reach every branch of the logcfg lambda. *)
EXTENDS Logging

CONSTANTS m1, m2, l1, l2, l3, l4

MCModules == {m1, m2}
MCLoggers == {l1, l2, l3, l4}
MCLoggerName == [l \in MCLoggers |-> IF l \in {l3, l4} THEN m2 ELSE m1]

Ov(mod, lvl) == [hasEq |-> TRUE, module |-> mod, level |-> lvl]

MCLogArgs ==
  { <<>>,
    <<BadLevel>>,
    <<4, Ov(m1, 1)>>,
    <<2, Ov(m1, 5), Ov(m1, NotSet), Ov(m2, 6)>>,
    <<3, Ov(m2, 1), [hasEq |-> FALSE, module |-> m1, level |-> 2]>>,
    <<1, Ov(m1, 5), Ov(NoText, 2)>>,
    <<5, Ov(m2, BadLevel)>>,
    <<6, Ov(m1, NoText)>> }
=============================================================================
