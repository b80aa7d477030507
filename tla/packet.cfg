SPECIFICATION Spec
CONSTANTS
    Packets <- McPackets
    Lengths <- McLengths
    Times <- McTimes
    Octets = 3
INVARIANTS TypeOK CountsItsOwn DamagedIsIgnored PacketFits
