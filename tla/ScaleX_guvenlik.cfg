\* Two restores that share a target, one of them of two targets, and one discovery scan;
\* every application was stopped through the portal before.
SPECIFICATION DurmusSpec
CONSTANTS
    s1 = s1
    g1 = g1
    g2 = g2
    t1 = t1
    t2 = t2
    f1 = f1
    f2 = f2
    Yok = Yok
    Islem = {g1, g2}
    GeriAlma = {g1, g2}
    Hedef = {t1, t2}
    Hedefler <- IkiHedef
    Sonuclandiran = {f1}
    EnCokAriza = 0
    EnCokIptal = 0
    EnCokTarama = 1
INVARIANTS TumuYaDaHicbiri SupurmeCalisaniBirakmaz
\* Requests are made once each: the system may come to rest.
CHECK_DEADLOCK FALSE
