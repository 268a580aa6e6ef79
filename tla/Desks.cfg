SPECIFICATION MCSpec
CONSTANTS
    Desk = {"sync", "trigger", "tws", "watch", "invitation", "chart", "automatic", "manual"}
    Sync = {s1, s2}
    Latency = {0}
    Mood = {{"generating"}, {"overloaded"}}
    Patience = 3
    Account = {a1}
    Nobody = Nobody
    Days = 1
    Tab = {t1, t2}
    BarsTimeout = 60
    MaxOrphans = 1
    Window = {w1, w2}
    Port = {p1, p2}
    Request = {r1, r2, r3}
    None = None
    Automatic = {call}
    Wheel = {call}
    Manual = {mine}
    Price = {p3, p4}
    Uuid = {i1, i2}
    Pointer = {f1, f2}
    Touch = {f1, f2}
    Top = 1
    Zooms = {0, 1}
    HitTolerance = 0
    PressSlop = 0
    Nothing = Nothing
INVARIANTS
    RingsOnce
    OneTwsConnection
    InvitationServesOnce
PROPERTIES
    DeletedAlertStays
    NeverMissed
    LoneSyncNeverRefused
    NoAutomaticLoop
    EntryIsServed
    EveryPortIsWatched
CHECK_DEADLOCK FALSE
