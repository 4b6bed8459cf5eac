\* A stop and a restore of one target with one fault and one cancellation; fair.
SPECIFICATION AdilSpec
CONSTANTS
    s1 = s1
    g1 = g1
    g2 = g2
    t1 = t1
    t2 = t2
    f1 = f1
    f2 = f2
    Yok = Yok
    Islem = {s1, g1}
    GeriAlma = {g1}
    Hedef = {t1}
    Hedefler <- TekHedef
    Sonuclandiran = {f1}
    EnCokAriza = 1
    EnCokIptal = 1
    EnCokTarama = 0
INVARIANTS TypeOK
PROPERTIES SonlananDegismez KilitCozulur IslemKapanir
\* Requests are made once each: the system may come to rest.
CHECK_DEADLOCK FALSE
