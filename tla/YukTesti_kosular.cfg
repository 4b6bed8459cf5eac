\* A load run and a check on one target, one fault: a restart, a failed call or an unanswered launch.
SPECIFICATION Spec
CONSTANTS
    r1 = r1
    r2 = r2
    t1 = t1
    m1 = m1
    d1 = d1
    G = G
    Yok = Yok
    Deneme = {r1, r2}
    Durdurma = {}
    Kosu = {r1}
    Serbest = {}
    SunucuAyar = {}
    Global = G
    Hedef <- TekHedef
    YukMakinesi <- TekMakine
    KilitSuresi = 1
    SablonZamanAsimi = 0
    Uzatma = 1
    YarimGun = 1
    OKUMA_DENEME_SINIRI = 0
    EnCokAriza = 1
    EnCokBasma = 0
INVARIANTS TekKosu HepsiYaDaHic
PROPERTIES TekYukuSaglar
