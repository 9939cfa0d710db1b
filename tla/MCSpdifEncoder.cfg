SPECIFICATION Spec
CONSTANTS Packet = 5  Hop = 9  Latency = 7  Guard = 8  MaxFifo = 30
INVARIANTS ReadyIsComplete EveryCallBursts DelayIsBounded
