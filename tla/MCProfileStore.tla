---------------------------- MODULE MCProfileStore ----------------------------
EXTENDS ProfileStore
CONSTANTS io, binder, p1, p2, m1
MCIo == {io}
MCBinder == {binder}
MCOwn == {p1}
MCOwn2 == {p1, p2}
MCManaged == {m1}
MCNone == {}
===============================================================================
