------------------------ MODULE MCServiceSupervisor ------------------------
EXTENDS ServiceSupervisor, TLC
CONSTANTS o1, o2, o3, o4, o5
MCKind == (o1 :> "start") @@ (o2 :> "evict") @@ (o3 :> "drain")
            @@ (o4 :> "stop") @@ (o5 :> "exit")
=============================================================================
