--------------------------- MODULE AssetRegister ----------------------------
(***************************************************************************)
(* What the device register promises, seen from outside: devices come in,  *)
(* a device is issued to one request at a time, a request is served once,  *)
(* and what was issued can be taken back.                                  *)
(***************************************************************************)

CONSTANTS Items, Claims

VARIABLES
    known,      \* the devices in the register
    held,       \* pairs <<device, request>>: what is out, and to whom
    served      \* the requests a device was ever issued for

arVars == <<known, held, served>>

ArInit == known = {} /\ held = {} /\ served = {}

Acquire(d) ==
    /\ d \notin known
    /\ known' = known \cup {d}
    /\ UNCHANGED <<held, served>>

Issue(d, q) ==
    /\ d \in known
    /\ \A c \in Claims : <<d, c>> \notin held
    /\ q \notin served
    /\ held' = held \cup {<<d, q>>}
    /\ served' = served \cup {q}
    /\ UNCHANGED known

TakeBack(d, q) ==
    /\ <<d, q>> \in held
    /\ held' = held \ {<<d, q>>}
    /\ UNCHANGED <<known, served>>

ArNext ==
    \/ \E d \in Items : Acquire(d)
    \/ \E d \in Items, q \in Claims : Issue(d, q) \/ TakeBack(d, q)

ArSpec == ArInit /\ [][ArNext]_arVars
=============================================================================
