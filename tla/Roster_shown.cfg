\* Ann watches; bob enrols, his connection breaks, he calls: two of these in all.
CONSTANTS
    a = a b = b ann = ann bob = bob room = room sb = sb None = None
    Daemon = {a, b}
    Person = {ann, bob}
    Identity <- MCIdentity
    Room = {room}
    Joined <- MCJoined
    Screen = {sb}
    ScreenOf <- MCScreenOf
    Conn = {c1, c2, c3}
    First = {a}
    Says = {"online", "away"}
    MaxEvents = 2
    Faulty = {b}
SPECIFICATION FairSpec
INVARIANTS TypeOK NoSessionNobodyShown
  
\* Nobody has to call: the system may rest.
CHECK_DEADLOCK FALSE
