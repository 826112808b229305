CONSTANTS
    Interval = 5
    MaxPackets = 5
    PacketSize = 1400
    Delays = {1, 9, 15, 25}
    Schedules <- Runs
SPECIFICATION Spec
INVARIANT TrafficTypeOK
INVARIANT LossesCounted
INVARIANT LossesExact
INVARIANT SentIsOnWire
INVARIANT ThroughputAddsUp
