---------------------------- MODULE MCFileCache ------------------------------
(* Small instances of FileCache for TLC. *)
EXTENDS FileCache, TLC

CONSTANTS r1, r2, r3, k1, k2, n1, n2

Conf(reqs, zone, keys, variants, old, uses, lock, deaths, manager) ==
    [requests |-> reqs, zone |-> zone, keys |-> keys, variants |-> variants, old |-> old,
     min_uses |-> uses, lock |-> lock, crashes |-> deaths, managed |-> manager]

(* Two keys and a death; a start over old files, without and with the lock;  *)
(* room for one node only; no room; three requests that compete for a lock;  *)
(* two that Vary leads to a variant and back, over an old file.              *)
Settings == {Conf({r1, r2}, {n1, n2}, {k1, k2}, {k1, k2}, {}, 1, FALSE, 1, TRUE),
             Conf({r1, r2}, {n1}, {k1}, {}, {k1}, 2, FALSE, 0, TRUE),
             Conf({r1, r2}, {n1}, {k1}, {}, {k1}, 1, TRUE, 1, FALSE),
             Conf({r1, r2}, {n1}, {k1, k2}, {k1, k2}, {}, 1, FALSE, 0, TRUE),
             Conf({r1, r2}, {}, {k1}, {}, {k1}, 1, FALSE, 0, TRUE),
             Conf({r1, r2, r3}, {n1}, {k1}, {}, {}, 1, TRUE, 0, FALSE),
             Conf({r1, r2}, {n1, n2}, {k1}, {k2}, {k1}, 1, TRUE, 0, FALSE)}
=============================================================================
