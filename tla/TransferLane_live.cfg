CONSTANTS
    w1 = w1
    w2 = w2
    a = a
    b = b
    r1 = r1
    r2 = r2
    NoWave = NoWave
    NoObj = NoObj
    Waves = {w1}
    Objs = {a, b}
    WaveOf <- WaveOfOne
    Slots = {r1}
SPECIFICATION LiveSpec
PROPERTIES
    RestoredIsServed
