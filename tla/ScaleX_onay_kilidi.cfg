\* scalex/index.cjs:1981: the sweep and a restore that waits for approval.
SPECIFICATION Spec
CONSTANTS
    s1 = s1
    g1 = g1
    g2 = g2
    t1 = t1
    t2 = t2
    f1 = f1
    f2 = f2
    Yok = Yok
    Islem = {g1}
    GeriAlma = {g1}
    Hedef = {t1}
    Hedefler <- TekHedef
    Sonuclandiran = {f1}
    EnCokAriza = 0
    EnCokIptal = 0
    EnCokTarama = 0
PROPERTIES OnayBekleyenKilitli
\* Requests are made once each: the system may come to rest.
CHECK_DEADLOCK FALSE
