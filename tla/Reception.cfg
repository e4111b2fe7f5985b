SPECIFICATION MCSpec
CONSTANTS
  Packets <- AllPackets
  Loaded <- ThirdNode
  Byte <- SameByte
  Km <- Distances
  Window <- Windows
  Limit <- Limits
  Dedup <- DedupTimes
  RingSize = 2
  MaxKeys = 1
  MaxTime = 5
  MaxHeard = 4
  Writers = {"heartbeat", "sender"}
  Payloads <- FewPayloads
  Noise = {148, 7}
  MaxPacket = 4
  MaxFrames = 3
  MaxFaults = 2
  LineMixes <- TwoMixes
  Short = 2
  Long = 3
  MaxMinute = 4
  MaxLogged = 4
INVARIANTS
  DetectorsAreExact
  ReuseIsExact
  RateLimited
  FramesSurvive
  HealthIsExact
  SnapshotsDisjoint
CHECK_DEADLOCK FALSE
